---- MODULE Spec2Model ----
(***************************************************************************)
(* A model of linkodin: Persona / LinkedInPost entities, the in-memory and *)
(* the JSON-file repositories, PersonaInteractor and the three-stage       *)
(* pipeline of PostGenerationInteractor.generate_post.                     *)
(*                                                                         *)
(* Text is modelled as a sequence of Unicode code points (97 is "a", 227   *)
(* is "a with tilde"), so that what json.dump writes and json.load reads   *)
(* back can be stated character by character.                              *)
(***************************************************************************)
EXTENDS Integers, Sequences, FiniteSets, TLC

VARIABLES
    backend,        \* "memory" | "file": which pair of repositories is wired
    mem_personas,   \* InMemoryPersonaRepository._personas : id -> Persona
    mem_posts,      \* InMemoryPostRepository._posts       : id -> LinkedInPost
    personas_json,  \* the file behind FilePersonaRepository (personas.json)
    posts_json,     \* the file behind FilePostRepository (posts.json)
    uuid_count,     \* how many identifiers uuid.uuid4() has issued
    pc,             \* position of the running coroutine (generate_post; each writer's save)
    req,            \* the argument of the running operation (request; each writer's record)
    locals,         \* the local variables of the running operation; self of OpenAIService
    calls,          \* calls made by the current / latest operation, in order
    last,           \* outcome of the latest completed operation
    personas_before,\* both persona stores as they were when that operation began
    posts_before,   \* both post stores as they were when that operation began
    ctor            \* latest entity construction tried: its arguments and outcome

vars == <<backend, mem_personas, mem_posts, personas_json, posts_json, uuid_count,
          pc, req, locals, calls, last, personas_before, posts_before, ctor>>

----------------------------------------------------------------------------
(* Bounds *)

\* generate_post calls that may be started (each may consume one uuid)
MaxPosts == 2

\* remote requests one OpenAIService object may send
MaxRequests == 3

----------------------------------------------------------------------------
(* Python values *)

\* Python's None; no str equals it, because no code point is negative
None == <<0 - 1>>

\* `not x` for a str or None
Falsy(x) == x = <<>> \/ x = None

\* dict / mapping helpers
EmptyDict == <<>>

DictSet(d, k, v) == [x \in (DOMAIN d) \cup {k} |-> IF x = k THEN v ELSE d[x]]

DictDel(d, k) == [x \in (DOMAIN d) \ {k} |-> d[x]]

\* list(d.values()) compared as a set
DictValues(d) == {d[k] : k \in DOMAIN d}

----------------------------------------------------------------------------
(* entities/persona.py *)

\* The dataclass fields of Persona, from the constructor's arguments
PersonaFields(a) ==
    [id |-> a.id, name |-> a.name, niche |-> a.niche,
     target_audience |-> a.target_audience, localization |-> a.localization,
     tone |-> a.tone, industry |-> a.industry,
     experience_level |-> a.experience_level,
     content_themes |-> a.content_themes,
     engagement_style |-> a.engagement_style,
     personal_brand_keywords |-> a.personal_brand_keywords,
     posting_frequency |-> a.posting_frequency,
     description |-> a.description]

\* __post_init__ without the check of localization
Persona_post_init_no_localization(self) ==
    IF Falsy(self.id) THEN "Persona ID cannot be empty"
    ELSE IF Falsy(self.name) THEN "Persona name cannot be empty"
    ELSE IF Falsy(self.niche) THEN "Persona niche cannot be empty"
    ELSE IF Falsy(self.target_audience) THEN "Target audience cannot be empty"
    ELSE ""

\* Persona.__post_init__: the message of the ValueError raised, "" when none is
Persona_post_init(self) ==
    IF Falsy(self.id) THEN "Persona ID cannot be empty"
    ELSE IF Falsy(self.name) THEN "Persona name cannot be empty"
    ELSE IF Falsy(self.niche) THEN "Persona niche cannot be empty"
    ELSE IF Falsy(self.target_audience) THEN "Target audience cannot be empty"
    ELSE IF Falsy(self.localization) THEN "Localization cannot be empty"
    ELSE ""

\* Persona(**a): the object, or the error that leaves the caller without one
Persona(a) ==
    LET self == PersonaFields(a)
        error == Persona_post_init(self)
    IN  [ok |-> error = "", error |-> error,
         value |-> IF error = "" THEN {self} ELSE {}]

----------------------------------------------------------------------------
(* entities/post.py *)

\* __post_init__ that looks at persona_id before id
LinkedInPost_post_init_persona_first(self) ==
    IF Falsy(self.persona_id) THEN "Persona ID cannot be empty"
    ELSE IF Falsy(self.id) THEN "Post ID cannot be empty"
    ELSE IF Falsy(self.content) THEN "Post content cannot be empty"
    ELSE ""

\* LinkedInPost.__post_init__: the message of the ValueError raised, "" when none is
LinkedInPost_post_init(self) ==
    IF Falsy(self.id) THEN "Post ID cannot be empty"
    ELSE IF Falsy(self.persona_id) THEN "Persona ID cannot be empty"
    ELSE IF Falsy(self.content) THEN "Post content cannot be empty"
    ELSE ""

\* LinkedInPost(**a) that stamps every post with datetime.now()
LinkedInPost_always_now(a, now) ==
    LET error == LinkedInPost_post_init(a)
        self == [id |-> a.id, persona_id |-> a.persona_id, content |-> a.content,
                 image_prompt |-> a.image_prompt, image_url |-> a.image_url,
                 hashtags |-> a.hashtags,
                 created_at |-> now,
                 market_analysis |-> a.market_analysis,
                 generation_prompt |-> a.generation_prompt]
    IN  [ok |-> error = "", error |-> error,
         value |-> IF error = "" THEN {self} ELSE {}]

\* LinkedInPost(**a) at time now: created_at defaults to datetime.now()
LinkedInPost(a, now) ==
    LET error == LinkedInPost_post_init(a)
        self == [id |-> a.id, persona_id |-> a.persona_id, content |-> a.content,
                 image_prompt |-> a.image_prompt, image_url |-> a.image_url,
                 hashtags |-> a.hashtags,
                 created_at |-> IF a.created_at = None THEN now ELSE a.created_at,
                 market_analysis |-> a.market_analysis,
                 generation_prompt |-> a.generation_prompt]
    IN  [ok |-> error = "", error |-> error,
         value |-> IF error = "" THEN {self} ELSE {}]

\* PostGenerationRequest.__post_init__
PostGenerationRequest_post_init(self) ==
    IF Falsy(self.persona_id) THEN "Persona ID is required for post generation"
    ELSE ""

\* PostGenerationRequest(**a)
PostGenerationRequest(a) ==
    LET self == [persona_id |-> a.persona_id, topic_hint |-> a.topic_hint,
                 additional_context |-> a.additional_context]
        error == PostGenerationRequest_post_init(self)
    IN  [ok |-> error = "", error |-> error,
         value |-> IF error = "" THEN {self} ELSE {}]

----------------------------------------------------------------------------
(* The JSON text json.dump writes and json.load reads *)

\* one hexadecimal digit as the character "0".."9", "a".."f"
HexDigit(d) == IF d < 10 THEN 48 + d ELSE 87 + d

\* the value of a hexadecimal digit character
HexValue(h) == IF h >= 97 THEN h - 87 ELSE IF h >= 65 THEN h - 55 ELSE h - 48

\* \uXXXX for a 16-bit code unit
UnicodeEscape(u) ==
    <<92, 117, HexDigit((u \div 4096) % 16), HexDigit((u \div 256) % 16),
      HexDigit((u \div 16) % 16), HexDigit(u % 16)>>

\* json.dump(..., f, indent=2) is called without ensure_ascii, which therefore
\* is True: a quote, a backslash and a newline get their short escapes, every
\* other character outside " ".."~" is written as \uXXXX, and one beyond
\* U+FFFF as the two escapes of its surrogate pair
EscapeChar(c) ==
    IF c = 34 THEN <<92, 34>>
    ELSE IF c = 92 THEN <<92, 92>>
    ELSE IF c = 10 THEN <<92, 110>>
    ELSE IF c > 65535
         THEN UnicodeEscape(55296 + ((c - 65536) \div 1024))
              \o UnicodeEscape(56320 + ((c - 65536) % 1024))
    ELSE IF c < 32 \/ c > 126 THEN UnicodeEscape(c)
    ELSE <<c>>

RECURSIVE EscapeString(_)
EscapeString(s) ==
    IF s = <<>> THEN <<>> ELSE EscapeChar(Head(s)) \o EscapeString(Tail(s))

\* the JSON text of a str
JsonString(s) == <<34>> \o EscapeString(s) \o <<34>>

\* the JSON text null
JsonNull == <<110, 117, 108, 108>>

\* the JSON text of an Optional[str]
JsonDumpOptional(v) == IF v = None THEN JsonNull ELSE JsonString(v)

\* the JSON texts of the items of a List[str]
JsonDumpList(l) == [i \in DOMAIN l |-> JsonString(l[i])]

\* the code unit of the escape \uXXXX that starts at position i of t
EscapedUnit(t, i) ==
    4096 * HexValue(t[i + 2]) + 256 * HexValue(t[i + 3])
    + 16 * HexValue(t[i + 4]) + HexValue(t[i + 5])

\* whether a \uXXXX escape of a low surrogate starts at position i of t
LowSurrogateAt(t, i) ==
    /\ Len(t) >= i + 5
    /\ t[i] = 92
    /\ t[i + 1] = 117
    /\ EscapedUnit(t, i) >= 56320
    /\ EscapedUnit(t, i) <= 57343

\* json.load's string scanner, on the text between the quotes
RECURSIVE Unescape(_)
Unescape(t) ==
    IF t = <<>> THEN <<>>
    ELSE IF Head(t) = 92
         THEN IF t[2] = 117
              THEN LET u == EscapedUnit(t, 1)
                   IN  IF u >= 55296 /\ u <= 56319 /\ LowSurrogateAt(t, 7)
                       THEN <<65536 + 1024 * (u - 55296) + (EscapedUnit(t, 7) - 56320)>>
                            \o Unescape(SubSeq(t, 13, Len(t)))
                       ELSE <<u>> \o Unescape(SubSeq(t, 7, Len(t)))
              ELSE <<IF t[2] = 110 THEN 10 ELSE t[2]>>
                   \o Unescape(SubSeq(t, 3, Len(t)))
    ELSE <<Head(t)>> \o Unescape(Tail(t))

\* the str a JSON string text stands for
JsonLoadString(t) == Unescape(SubSeq(t, 2, Len(t) - 1))

JsonLoadOptional(t) == IF t = JsonNull THEN None ELSE JsonLoadString(t)

JsonLoadList(l) == [i \in DOMAIN l |-> JsonLoadString(l[i])]

----------------------------------------------------------------------------
(* datetime: <<second, microsecond>>; the year .. minute fields are written *)
(* and read like the second field, as zero-padded integers of fixed width   *)

RECURSIVE Digits(_, _)
Digits(n, width) ==
    IF width = 0 THEN <<>> ELSE Digits(n \div 10, width - 1) \o <<48 + (n % 10)>>

RECURSIVE ParseInt(_)
ParseInt(t) ==
    IF t = <<>> THEN 0 ELSE 10 * ParseInt(SubSeq(t, 1, Len(t) - 1)) + (t[Len(t)] - 48)

\* datetime.isoformat(): "SS", and ".ffffff" only when microsecond is not 0
isoformat(dt) ==
    Digits(dt[1], 2) \o (IF dt[2] = 0 THEN <<>> ELSE <<46>> \o Digits(dt[2], 6))

\* datetime.fromisoformat()
fromisoformat(t) ==
    <<ParseInt(SubSeq(t, 1, 2)),
      IF Len(t) > 2 THEN ParseInt(SubSeq(t, 4, Len(t))) ELSE 0>>

----------------------------------------------------------------------------
(* infrastructure/in_memory_persona_repository.py *)
(* A lookup result is a set: {} when the id is absent, {record} otherwise.  *)

InMemory_save_persona(personas, persona) == DictSet(personas, persona.id, persona)

InMemory_get_persona_by_id(personas, persona_id) ==
    IF persona_id \in DOMAIN personas THEN {personas[persona_id]} ELSE {}

InMemory_get_all_personas(personas) == DictValues(personas)

\* <<the store afterwards, the value returned>>
InMemory_delete_persona(personas, persona_id) ==
    IF persona_id \in DOMAIN personas
    THEN <<DictDel(personas, persona_id), TRUE>>
    ELSE <<personas, FALSE>>

----------------------------------------------------------------------------
(* infrastructure/in_memory_post_repository.py *)

\* save_post that files the post under its persona_id
InMemory_save_post_by_persona(posts, post) == DictSet(posts, post.persona_id, post)

InMemory_save_post(posts, post) == DictSet(posts, post.id, post)

InMemory_get_post_by_id(posts, post_id) ==
    IF post_id \in DOMAIN posts THEN {posts[post_id]} ELSE {}

InMemory_get_posts_by_persona(posts, persona_id) ==
    {posts[k] : k \in {x \in DOMAIN posts : posts[x].persona_id = persona_id}}

\* get_all_posts that hands out the posts of the first persona only
InMemory_get_all_posts_one_persona(posts) ==
    {posts[k] : k \in {x \in DOMAIN posts : posts[x].persona_id = <<112>>}}

InMemory_get_all_posts(posts) == DictValues(posts)

----------------------------------------------------------------------------
(* A file: [kind |-> "missing"] before the first write, afterwards          *)
(* [kind |-> "json", doc |-> the JSON object written], an object being a    *)
(* mapping from the JSON text of each key to the JSON texts of its fields.  *)

MissingFile == [kind |-> "missing", doc |-> EmptyDict]

----------------------------------------------------------------------------
(* infrastructure/file_persona_repository.py *)

JsonDumpPersonaDict(d) ==
    [id |-> JsonString(d.id), name |-> JsonString(d.name),
     niche |-> JsonString(d.niche),
     target_audience |-> JsonString(d.target_audience),
     localization |-> JsonString(d.localization),
     tone |-> JsonString(d.tone), industry |-> JsonString(d.industry),
     experience_level |-> JsonString(d.experience_level),
     content_themes |-> JsonDumpList(d.content_themes),
     engagement_style |-> JsonString(d.engagement_style),
     personal_brand_keywords |-> JsonDumpList(d.personal_brand_keywords),
     posting_frequency |-> JsonString(d.posting_frequency),
     description |-> JsonDumpOptional(d.description)]

JsonLoadPersonaDict(e) ==
    [id |-> JsonLoadString(e.id), name |-> JsonLoadString(e.name),
     niche |-> JsonLoadString(e.niche),
     target_audience |-> JsonLoadString(e.target_audience),
     localization |-> JsonLoadString(e.localization),
     tone |-> JsonLoadString(e.tone), industry |-> JsonLoadString(e.industry),
     experience_level |-> JsonLoadString(e.experience_level),
     content_themes |-> JsonLoadList(e.content_themes),
     engagement_style |-> JsonLoadString(e.engagement_style),
     personal_brand_keywords |-> JsonLoadList(e.personal_brand_keywords),
     posting_frequency |-> JsonLoadString(e.posting_frequency),
     description |-> JsonLoadOptional(e.description)]

File_load_personas(file) ==
    IF file.kind = "missing" THEN EmptyDict
    ELSE [k \in {JsonLoadString(t) : t \in DOMAIN file.doc} |->
            JsonLoadPersonaDict(
                file.doc[CHOOSE t \in DOMAIN file.doc : JsonLoadString(t) = k])]

File_save_personas(personas) ==
    [kind |-> "json",
     doc |-> [t \in {JsonString(k) : k \in DOMAIN personas} |->
                JsonDumpPersonaDict(
                    personas[CHOOSE k \in DOMAIN personas : JsonString(k) = t])]]

File_persona_to_dict(persona) == PersonaFields(persona)

\* Persona(**data); the stored dicts come from valid personas, so it raises nothing
File_dict_to_persona(data) == Persona(data).value

\* save_persona that writes a document holding the saved persona only
File_save_persona_alone(file, persona) ==
    File_save_personas(DictSet(EmptyDict, persona.id, File_persona_to_dict(persona)))

File_save_persona(file, persona) ==
    File_save_personas(
        DictSet(File_load_personas(file), persona.id, File_persona_to_dict(persona)))

File_get_persona_by_id(file, persona_id) ==
    LET personas == File_load_personas(file)
    IN  IF persona_id \notin DOMAIN personas THEN {}
        ELSE File_dict_to_persona(personas[persona_id])

File_get_all_personas(file) ==
    LET personas == File_load_personas(file)
    IN  UNION {File_dict_to_persona(personas[k]) : k \in DOMAIN personas}

\* delete_persona that drops the entry from the loaded dict and never writes it back
File_delete_persona_no_write(file, persona_id) ==
    LET personas == File_load_personas(file)
    IN  IF persona_id \notin DOMAIN personas THEN <<file, FALSE>>
        ELSE <<file, TRUE>>

\* <<the file afterwards, the value returned>>
File_delete_persona(file, persona_id) ==
    LET personas == File_load_personas(file)
    IN  IF persona_id \notin DOMAIN personas THEN <<file, FALSE>>
        ELSE <<File_save_personas(DictDel(personas, persona_id)), TRUE>>

----------------------------------------------------------------------------
(* infrastructure/file_post_repository.py *)

JsonDumpPostDict(d) ==
    [id |-> JsonString(d.id), persona_id |-> JsonString(d.persona_id),
     content |-> JsonString(d.content),
     image_prompt |-> JsonDumpOptional(d.image_prompt),
     image_url |-> JsonDumpOptional(d.image_url),
     hashtags |-> JsonDumpOptional(d.hashtags),
     created_at |-> JsonDumpOptional(d.created_at),
     market_analysis |-> JsonDumpOptional(d.market_analysis),
     generation_prompt |-> JsonDumpOptional(d.generation_prompt)]

JsonLoadPostDict(e) ==
    [id |-> JsonLoadString(e.id), persona_id |-> JsonLoadString(e.persona_id),
     content |-> JsonLoadString(e.content),
     image_prompt |-> JsonLoadOptional(e.image_prompt),
     image_url |-> JsonLoadOptional(e.image_url),
     hashtags |-> JsonLoadOptional(e.hashtags),
     created_at |-> JsonLoadOptional(e.created_at),
     market_analysis |-> JsonLoadOptional(e.market_analysis),
     generation_prompt |-> JsonLoadOptional(e.generation_prompt)]

File_load_posts(file) ==
    IF file.kind = "missing" THEN EmptyDict
    ELSE [k \in {JsonLoadString(t) : t \in DOMAIN file.doc} |->
            JsonLoadPostDict(
                file.doc[CHOOSE t \in DOMAIN file.doc : JsonLoadString(t) = k])]

File_save_posts(posts) ==
    [kind |-> "json",
     doc |-> [t \in {JsonString(k) : k \in DOMAIN posts} |->
                JsonDumpPostDict(posts[CHOOSE k \in DOMAIN posts : JsonString(k) = t])]]

File_post_to_dict(post) ==
    [post EXCEPT !.created_at =
        IF post.created_at # None THEN isoformat(post.created_at) ELSE None]

\* _dict_to_post that leaves created_at the string it was stored as
File_dict_to_post_unparsed(data, now) == LinkedInPost(data, now).value

\* LinkedInPost(**data) after created_at has been parsed; now is the clock's
\* reading, used only for an entry whose created_at is null
File_dict_to_post(data, now) ==
    LinkedInPost(
        [data EXCEPT !.created_at =
            IF Falsy(data.created_at) THEN data.created_at
            ELSE fromisoformat(data.created_at)],
        now).value

File_save_post(file, post) ==
    File_save_posts(DictSet(File_load_posts(file), post.id, File_post_to_dict(post)))

File_get_post_by_id(file, post_id, now) ==
    LET posts == File_load_posts(file)
    IN  IF post_id \notin DOMAIN posts THEN {}
        ELSE File_dict_to_post(posts[post_id], now)

\* get_posts_by_persona without the filter of the comprehension
File_get_posts_by_persona_unfiltered(file, persona_id, now) ==
    LET posts == File_load_posts(file)
    IN  UNION {File_dict_to_post(posts[k], now) : k \in DOMAIN posts}

File_get_posts_by_persona(file, persona_id, now) ==
    LET posts == File_load_posts(file)
    IN  UNION {File_dict_to_post(posts[k], now) :
                 k \in {x \in DOMAIN posts : posts[x].persona_id = persona_id}}

File_get_all_posts(file, now) ==
    LET posts == File_load_posts(file)
    IN  UNION {File_dict_to_post(posts[k], now) : k \in DOMAIN posts}

----------------------------------------------------------------------------
(* The repositories the interactors were constructed with (cli/main.py wires *)
(* the two file repositories, demo.py the two in-memory ones)                *)

get_persona_by_id(persona_id) ==
    IF backend = "memory" THEN InMemory_get_persona_by_id(mem_personas, persona_id)
    ELSE File_get_persona_by_id(personas_json, persona_id)

get_all_personas ==
    IF backend = "memory" THEN InMemory_get_all_personas(mem_personas)
    ELSE File_get_all_personas(personas_json)

save_persona(persona) ==
    IF backend = "memory"
    THEN /\ mem_personas' = InMemory_save_persona(mem_personas, persona)
         /\ UNCHANGED personas_json
    ELSE /\ personas_json' = File_save_persona(personas_json, persona)
         /\ UNCHANGED mem_personas

\* the value delete_persona(persona_id) returns
delete_persona_result(persona_id) ==
    IF backend = "memory" THEN InMemory_delete_persona(mem_personas, persona_id)[2]
    ELSE File_delete_persona(personas_json, persona_id)[2]

delete_persona(persona_id) ==
    IF backend = "memory"
    THEN /\ mem_personas' = InMemory_delete_persona(mem_personas, persona_id)[1]
         /\ UNCHANGED personas_json
    ELSE /\ personas_json' = File_delete_persona(personas_json, persona_id)[1]
         /\ UNCHANGED mem_personas

save_post(post) ==
    IF backend = "memory"
    THEN /\ mem_posts' = InMemory_save_post(mem_posts, post)
         /\ UNCHANGED posts_json
    ELSE /\ posts_json' = File_save_post(posts_json, post)
         /\ UNCHANGED mem_posts

get_post_by_id(post_id, now) ==
    IF backend = "memory" THEN InMemory_get_post_by_id(mem_posts, post_id)
    ELSE File_get_post_by_id(posts_json, post_id, now)

get_posts_by_persona(persona_id, now) ==
    IF backend = "memory" THEN InMemory_get_posts_by_persona(mem_posts, persona_id)
    ELSE File_get_posts_by_persona(posts_json, persona_id, now)

get_all_posts(now) ==
    IF backend = "memory" THEN InMemory_get_all_posts(mem_posts)
    ELSE File_get_all_posts(posts_json, now)

----------------------------------------------------------------------------
(* The inputs the operations are tried on *)

\* "p" and "e with acute accent"
PersonaIds == {<<112>>, <<233>>}

\* "J" and "a with tilde" followed by a double quote
PersonaNames == {<<74>>, <<227, 34>>}

PersonaArgs(id, name) ==
    [id |-> id, name |-> name, niche |-> <<110>>, target_audience |-> <<100>>,
     localization |-> <<80, 244>>, tone |-> <<116>>, industry |-> <<105>>,
     experience_level |-> <<83, 234>>, content_themes |-> <<<<231>>, <<99>>>>,
     engagement_style |-> <<115>>, personal_brand_keywords |-> <<<<107>>>>,
     posting_frequency |-> <<119>>, description |-> None]

\* the Persona objects a caller holds
Personas == UNION {Persona(PersonaArgs(i, n)).value : i \in PersonaIds, n \in PersonaNames}

\* the PostGenerationRequest objects a caller holds
Requests ==
    {r \in [persona_id : PersonaIds, topic_hint : {None, <<116>>},
            additional_context : {None, <<120>>}] :
        /\ PostGenerationRequest_post_init(r) = ""
        /\ (r.topic_hint = None) = (r.additional_context = None)}

\* what the generation service may answer at each stage
Analyses == {<<109>>}

Prompts == {<<103>>}

\* empty, and "c with cedilla" followed by a backslash
Contents == {<<>>, <<231, 92>>}

ImagePrompts == {<<105>>}

\* readings of datetime.now(): a whole second, and one with microseconds
Times == {<<7, 0>>, <<7, 250000>>}

\* an identifier source that issues the same identifier every time
uuid4_repeating(n) == <<49>>

\* str(uuid.uuid4()): the n-th identifier issued differs from all issued before
uuid4(n) == <<48 + n>>

----------------------------------------------------------------------------
(* Bookkeeping of what an interactor operation did *)

\* one collaborator call: its arguments and what came back ("returned" with
\* ret, or "raised")
Call(op, args, ret) == [op |-> op, args |-> args, outcome |-> "returned", ret |-> ret]

FailedCall(op, args) == [op |-> op, args |-> args, outcome |-> "raised", ret |-> None]

\* outcome: "returned" (ret holds the value, {} for None) or "raised" (error)
Returned(op, arg, ret) ==
    [op |-> op, arg |-> arg, outcome |-> "returned", error |-> "", ret |-> ret]

Raised(op, arg, error) ==
    [op |-> op, arg |-> arg, outcome |-> "raised", error |-> error, ret |-> {}]

Running(op, arg) ==
    [op |-> op, arg |-> arg, outcome |-> "running", error |-> "", ret |-> {}]

NoLocals ==
    [persona |-> {}, market_analysis |-> None, generation_prompt |-> None,
     post_content |-> None, image_prompt |-> None]

NoRequest == [persona_id |-> None, topic_hint |-> None, additional_context |-> None]

NoCtor ==
    [kind |-> "none", args |-> <<>>, now |-> None,
     result |-> [ok |-> FALSE, error |-> "", value |-> {}]]

PersonaStoresUnchanged == UNCHANGED <<mem_personas, personas_json>>

PostStoresUnchanged == UNCHANGED <<mem_posts, posts_json>>

----------------------------------------------------------------------------
(* interactors/persona_interactor.py: each method is run to completion *)

\* create_persona without its existence check
create_persona_unchecked(persona) ==
    /\ pc = "idle"
    /\ save_persona(persona)
    /\ calls' = <<Call("get_persona_by_id", <<persona.id>>, get_persona_by_id(persona.id)),
                  Call("save_persona", <<persona>>, None)>>
    /\ last' = Returned("create_persona", persona, {})
    /\ personas_before' = <<mem_personas, personas_json>>
    /\ posts_before' = <<mem_posts, posts_json>>
    /\ PostStoresUnchanged
    /\ UNCHANGED <<backend, uuid_count, pc, req, locals, ctor>>

create_persona(persona) ==
    /\ pc = "idle"
    /\ LET existing == get_persona_by_id(persona.id)
           lookup == Call("get_persona_by_id", <<persona.id>>, existing)
       IN  IF existing # {}
           THEN /\ last' = Raised("create_persona", persona, "already exists")
                /\ calls' = <<lookup>>
                /\ PersonaStoresUnchanged
           ELSE /\ save_persona(persona)
                /\ calls' = <<lookup, Call("save_persona", <<persona>>, None)>>
                /\ last' = Returned("create_persona", persona, {})
    /\ personas_before' = <<mem_personas, personas_json>>
    /\ posts_before' = <<mem_posts, posts_json>>
    /\ PostStoresUnchanged
    /\ UNCHANGED <<backend, uuid_count, pc, req, locals, ctor>>

\* update_persona that saves whether or not the persona exists
update_persona_upsert(persona) ==
    /\ pc = "idle"
    /\ save_persona(persona)
    /\ calls' = <<Call("get_persona_by_id", <<persona.id>>, get_persona_by_id(persona.id)),
                  Call("save_persona", <<persona>>, None)>>
    /\ last' = Returned("update_persona", persona, {})
    /\ personas_before' = <<mem_personas, personas_json>>
    /\ posts_before' = <<mem_posts, posts_json>>
    /\ PostStoresUnchanged
    /\ UNCHANGED <<backend, uuid_count, pc, req, locals, ctor>>

update_persona(persona) ==
    /\ pc = "idle"
    /\ LET existing == get_persona_by_id(persona.id)
           lookup == Call("get_persona_by_id", <<persona.id>>, existing)
       IN  IF existing = {}
           THEN /\ last' = Raised("update_persona", persona, "not found")
                /\ calls' = <<lookup>>
                /\ PersonaStoresUnchanged
           ELSE /\ save_persona(persona)
                /\ calls' = <<lookup, Call("save_persona", <<persona>>, None)>>
                /\ last' = Returned("update_persona", persona, {})
    /\ personas_before' = <<mem_personas, personas_json>>
    /\ posts_before' = <<mem_posts, posts_json>>
    /\ PostStoresUnchanged
    /\ UNCHANGED <<backend, uuid_count, pc, req, locals, ctor>>

\* delete_persona that also removes the posts of the persona
PersonaInteractor_delete_persona_cascading(persona_id) ==
    /\ pc = "idle"
    /\ delete_persona(persona_id)
    /\ mem_posts' = [k \in {x \in DOMAIN mem_posts : mem_posts[x].persona_id # persona_id}
                        |-> mem_posts[k]]
    /\ posts_json' =
        LET posts == File_load_posts(posts_json)
        IN  IF posts_json.kind = "missing" THEN posts_json
            ELSE File_save_posts(
                    [k \in {x \in DOMAIN posts : posts[x].persona_id # persona_id}
                        |-> posts[k]])
    /\ calls' = <<Call("delete_persona", <<persona_id>>, delete_persona_result(persona_id))>>
    /\ last' = Returned("delete_persona", persona_id, {delete_persona_result(persona_id)})
    /\ personas_before' = <<mem_personas, personas_json>>
    /\ posts_before' = <<mem_posts, posts_json>>
    /\ UNCHANGED <<backend, uuid_count, pc, req, locals, ctor>>

PersonaInteractor_delete_persona(persona_id) ==
    /\ pc = "idle"
    /\ delete_persona(persona_id)
    /\ calls' = <<Call("delete_persona", <<persona_id>>, delete_persona_result(persona_id))>>
    /\ last' = Returned("delete_persona", persona_id, {delete_persona_result(persona_id)})
    /\ personas_before' = <<mem_personas, personas_json>>
    /\ posts_before' = <<mem_posts, posts_json>>
    /\ PostStoresUnchanged
    /\ UNCHANGED <<backend, uuid_count, pc, req, locals, ctor>>

----------------------------------------------------------------------------
(* interactors/post_generation_interactor.py: generate_post, one step per   *)
(* awaited call                                                             *)

\* the call is made: nothing has run yet
generate_post_begin(request) ==
    /\ pc = "idle"
    /\ uuid_count < MaxPosts
    /\ pc' = "lookup"
    /\ req' = request
    /\ locals' = NoLocals
    /\ calls' = <<>>
    /\ last' = Running("generate_post", request)
    /\ personas_before' = <<mem_personas, personas_json>>
    /\ posts_before' = <<mem_posts, posts_json>>
    /\ PersonaStoresUnchanged
    /\ PostStoresUnchanged
    /\ UNCHANGED <<backend, uuid_count, ctor>>

\* the operation ends by raising error
generate_post_raise(error) ==
    /\ pc' = "idle"
    /\ locals' = NoLocals
    /\ last' = Raised("generate_post", req, error)

\* generate_post that goes on to stage 1 whatever the lookup returned
generate_post_lookup_unchecked ==
    /\ pc = "lookup"
    /\ LET persona == get_persona_by_id(req.persona_id)
       IN  /\ calls' = Append(calls, Call("get_persona_by_id", <<req.persona_id>>, persona))
           /\ pc' = "stage1"
           /\ locals' = [locals EXCEPT !.persona = persona]
           /\ UNCHANGED last
    /\ PersonaStoresUnchanged
    /\ PostStoresUnchanged
    /\ UNCHANGED <<backend, uuid_count, req, personas_before, posts_before, ctor>>

\* lines 31-33: resolve the persona
generate_post_lookup ==
    /\ pc = "lookup"
    /\ LET persona == get_persona_by_id(req.persona_id)
       IN  /\ calls' = Append(calls, Call("get_persona_by_id", <<req.persona_id>>, persona))
           /\ IF persona = {}
              THEN generate_post_raise("not found")
              ELSE /\ pc' = "stage1"
                   /\ locals' = [locals EXCEPT !.persona = persona]
                   /\ UNCHANGED last
    /\ PersonaStoresUnchanged
    /\ PostStoresUnchanged
    /\ UNCHANGED <<backend, uuid_count, req, personas_before, posts_before, ctor>>

\* lines 36-40: the first agent answers, or fails
generate_post_stage1 ==
    /\ pc = "stage1"
    /\ LET args == <<locals.persona, req.topic_hint, req.additional_context>>
       IN  \/ \E market_analysis \in Analyses, generation_prompt \in Prompts :
                /\ calls' = Append(calls, Call("generate_market_analysis_and_prompt",
                                    args, <<market_analysis, generation_prompt>>))
                /\ locals' = [locals EXCEPT !.market_analysis = market_analysis,
                                            !.generation_prompt = generation_prompt]
                /\ pc' = "stage2"
                /\ UNCHANGED last
           \/ /\ calls' = Append(calls,
                            FailedCall("generate_market_analysis_and_prompt", args))
              /\ generate_post_raise("stage 1 failed")
    /\ PersonaStoresUnchanged
    /\ PostStoresUnchanged
    /\ UNCHANGED <<backend, uuid_count, req, personas_before, posts_before, ctor>>

\* stage 2 handed the market analysis in place of the generation prompt
generate_post_stage2_wrong_prompt ==
    /\ pc = "stage2"
    /\ LET args == <<locals.market_analysis, locals.persona>>
       IN  \/ \E post_content \in Contents :
                /\ calls' = Append(calls, Call("generate_post_content", args, post_content))
                /\ locals' = [locals EXCEPT !.post_content = post_content]
                /\ pc' = "stage3"
                /\ UNCHANGED last
           \/ /\ calls' = Append(calls, FailedCall("generate_post_content", args))
              /\ generate_post_raise("stage 2 failed")
    /\ PersonaStoresUnchanged
    /\ PostStoresUnchanged
    /\ UNCHANGED <<backend, uuid_count, req, personas_before, posts_before, ctor>>

\* stage 2 whose empty answer is rejected at once, before stage 3
generate_post_stage2_validating ==
    /\ pc = "stage2"
    /\ LET args == <<locals.generation_prompt, locals.persona>>
       IN  \/ \E post_content \in Contents :
                /\ calls' = Append(calls, Call("generate_post_content", args, post_content))
                /\ IF Falsy(post_content)
                   THEN generate_post_raise("Post content cannot be empty")
                   ELSE /\ locals' = [locals EXCEPT !.post_content = post_content]
                        /\ pc' = "stage3"
                        /\ UNCHANGED last
           \/ /\ calls' = Append(calls, FailedCall("generate_post_content", args))
              /\ generate_post_raise("stage 2 failed")
    /\ PersonaStoresUnchanged
    /\ PostStoresUnchanged
    /\ UNCHANGED <<backend, uuid_count, req, personas_before, posts_before, ctor>>

\* lines 43-46: the second agent
generate_post_stage2 ==
    /\ pc = "stage2"
    /\ LET args == <<locals.generation_prompt, locals.persona>>
       IN  \/ \E post_content \in Contents :
                /\ calls' = Append(calls, Call("generate_post_content", args, post_content))
                /\ locals' = [locals EXCEPT !.post_content = post_content]
                /\ pc' = "stage3"
                /\ UNCHANGED last
           \/ /\ calls' = Append(calls, FailedCall("generate_post_content", args))
              /\ generate_post_raise("stage 2 failed")
    /\ PersonaStoresUnchanged
    /\ PostStoresUnchanged
    /\ UNCHANGED <<backend, uuid_count, req, personas_before, posts_before, ctor>>

\* stage 3 whose failure is caught: the post is saved without an image prompt
generate_post_stage3_best_effort ==
    /\ pc = "stage3"
    /\ LET args == <<locals.post_content, locals.market_analysis, locals.persona>>
       IN  \/ \E image_prompt \in ImagePrompts :
                /\ calls' = Append(calls, Call("generate_image_prompt", args, image_prompt))
                /\ locals' = [locals EXCEPT !.image_prompt = image_prompt]
           \/ /\ calls' = Append(calls, FailedCall("generate_image_prompt", args))
              /\ locals' = locals
    /\ pc' = "save"
    /\ UNCHANGED last
    /\ PersonaStoresUnchanged
    /\ PostStoresUnchanged
    /\ UNCHANGED <<backend, uuid_count, req, personas_before, posts_before, ctor>>

\* lines 49-53: the third agent
generate_post_stage3 ==
    /\ pc = "stage3"
    /\ LET args == <<locals.post_content, locals.market_analysis, locals.persona>>
       IN  \/ \E image_prompt \in ImagePrompts :
                /\ calls' = Append(calls, Call("generate_image_prompt", args, image_prompt))
                /\ locals' = [locals EXCEPT !.image_prompt = image_prompt]
                /\ pc' = "save"
                /\ UNCHANGED last
           \/ /\ calls' = Append(calls, FailedCall("generate_image_prompt", args))
              /\ generate_post_raise("stage 3 failed")
    /\ PersonaStoresUnchanged
    /\ PostStoresUnchanged
    /\ UNCHANGED <<backend, uuid_count, req, personas_before, posts_before, ctor>>

\* the post built with content and image prompt exchanged
generate_post_save_swapped ==
    /\ pc = "save"
    /\ uuid_count' = uuid_count + 1
    /\ \E now \in Times :
        LET post == LinkedInPost(
                        [id |-> uuid4(uuid_count + 1), persona_id |-> req.persona_id,
                         content |-> locals.image_prompt,
                         image_prompt |-> locals.post_content,
                         image_url |-> None, hashtags |-> None, created_at |-> None,
                         market_analysis |-> locals.market_analysis,
                         generation_prompt |-> locals.generation_prompt], now)
        IN  \E p \in post.value :
                /\ save_post(p)
                /\ calls' = Append(calls, Call("save_post", <<p>>, None))
                /\ pc' = "idle"
                /\ locals' = NoLocals
                /\ last' = Returned("generate_post", req, {p})
    /\ PersonaStoresUnchanged
    /\ UNCHANGED <<backend, req, personas_before, posts_before, ctor>>

\* lines 56-68: build the entity, save it, return it
generate_post_save ==
    /\ pc = "save"
    /\ uuid_count' = uuid_count + 1
    /\ \E now \in Times :
        LET post == LinkedInPost(
                        [id |-> uuid4(uuid_count + 1), persona_id |-> req.persona_id,
                         content |-> locals.post_content,
                         image_prompt |-> locals.image_prompt,
                         image_url |-> None, hashtags |-> None, created_at |-> None,
                         market_analysis |-> locals.market_analysis,
                         generation_prompt |-> locals.generation_prompt], now)
        IN  IF ~post.ok
            THEN /\ generate_post_raise(post.error)
                 /\ PostStoresUnchanged
                 /\ UNCHANGED calls
            ELSE \E p \in post.value :
                    /\ save_post(p)
                    /\ calls' = Append(calls, Call("save_post", <<p>>, None))
                    /\ pc' = "idle"
                    /\ locals' = NoLocals
                    /\ last' = Returned("generate_post", req, {p})
    /\ PersonaStoresUnchanged
    /\ UNCHANGED <<backend, req, personas_before, posts_before, ctor>>

----------------------------------------------------------------------------
\* the post ids the read operations are tried on: those of the first two
\* posts generated
ReadPostIds == {uuid4(1), uuid4(2)}

\* a method whose body is `return await repository.repo_op(arg)`
Interactor_read(op, repo_op, arg, ret) ==
    /\ pc = "idle"
    /\ calls' = <<Call(repo_op, <<arg>>, ret)>>
    /\ last' = Returned(op, arg, ret)
    /\ personas_before' = <<mem_personas, personas_json>>
    /\ posts_before' = <<mem_posts, posts_json>>
    /\ PersonaStoresUnchanged
    /\ PostStoresUnchanged
    /\ UNCHANGED <<backend, uuid_count, pc, req, locals, ctor>>

\* persona_interactor.py lines 30-36
PersonaInteractor_get_persona(persona_id) ==
    Interactor_read("get_persona", "get_persona_by_id", persona_id,
                    get_persona_by_id(persona_id))

PersonaInteractor_list_personas ==
    Interactor_read("list_personas", "get_all_personas", None, get_all_personas)

\* post_generation_interactor.py lines 70-80
PostGenerationInteractor_get_post(post_id, now) ==
    Interactor_read("get_post", "get_post_by_id", post_id, get_post_by_id(post_id, now))

\* get_posts_by_persona that returns nothing for a persona that is not stored
PostGenerationInteractor_get_posts_by_persona_checked(persona_id, now) ==
    Interactor_read("get_posts_by_persona", "get_posts_by_persona", persona_id,
                    IF get_persona_by_id(persona_id) = {} THEN {}
                    ELSE get_posts_by_persona(persona_id, now))

PostGenerationInteractor_get_posts_by_persona(persona_id, now) ==
    Interactor_read("get_posts_by_persona", "get_posts_by_persona", persona_id,
                    get_posts_by_persona(persona_id, now))

PostGenerationInteractor_get_all_posts(now) ==
    Interactor_read("get_all_posts", "get_all_posts", None, get_all_posts(now))

----------------------------------------------------------------------------

(* The interactors over one pair of repositories, used by one caller *)

Init ==
    /\ backend \in {"memory", "file"}
    /\ mem_personas = EmptyDict
    /\ mem_posts = EmptyDict
    /\ personas_json = MissingFile
    /\ posts_json = MissingFile
    /\ uuid_count = 0
    /\ pc = "idle"
    /\ req = NoRequest
    /\ locals = NoLocals
    /\ calls = <<>>
    /\ last = Returned("none", None, {})
    /\ personas_before = <<EmptyDict, MissingFile>>
    /\ posts_before = <<EmptyDict, MissingFile>>
    /\ ctor = NoCtor

Next ==
    \/ \E persona \in Personas : create_persona(persona)
    \/ \E persona \in Personas : update_persona(persona)
    \/ \E persona_id \in PersonaIds : PersonaInteractor_delete_persona(persona_id)
    \/ \E request \in Requests : generate_post_begin(request)
    \/ generate_post_lookup
    \/ generate_post_stage1
    \/ generate_post_stage2
    \/ generate_post_stage3
    \/ generate_post_save

Spec == Init /\ [][Next]_vars

\* the same caller, making the read calls as well
NextReads ==
    \/ Next
    \/ \E persona_id \in PersonaIds : PersonaInteractor_get_persona(persona_id)
    \/ PersonaInteractor_list_personas
    \/ \E post_id \in ReadPostIds, now \in Times :
            PostGenerationInteractor_get_post(post_id, now)
    \/ \E persona_id \in PersonaIds, now \in Times :
            PostGenerationInteractor_get_posts_by_persona(persona_id, now)
    \/ \E now \in Times : PostGenerationInteractor_get_all_posts(now)

SpecReads == Init /\ [][NextReads]_vars

----------------------------------------------------------------------------
(* The repositories used directly: every call is made on the in-memory and  *)
(* on the file-backed implementation alike, both starting empty             *)

\* a second persona per id, with a description and other keywords
RepoPersonaArgs(id) ==
    {PersonaArgs(id, <<74>>),
     [PersonaArgs(id, <<227, 34>>) EXCEPT !.description = <<100, 233>>,
                                          !.personal_brand_keywords = <<>>,
                                          !.content_themes = <<<<252, 92>>>>]}

RepoPersonas == UNION {Persona(a).value : a \in UNION {RepoPersonaArgs(i) : i \in PersonaIds}}

\* "1" and "e with acute accent"
RepoPostIds == {<<49>>, <<233>>}

\* a post that leaves every optional field out, and one that gives them all
\* (its content: the rocket emoji U+1F680 and a newline)
RepoPostArgs(id) ==
    {[id |-> id, persona_id |-> <<112>>, content |-> <<231, 92>>,
      image_prompt |-> None, image_url |-> None, hashtags |-> None,
      created_at |-> None, market_analysis |-> None, generation_prompt |-> None],
     [id |-> id, persona_id |-> <<233>>, content |-> <<128640, 10>>,
      image_prompt |-> <<105>>, image_url |-> <<104>>, hashtags |-> <<35, 241>>,
      created_at |-> <<59, 5>>, market_analysis |-> <<109, 225>>,
      generation_prompt |-> <<103>>]}

RepoPosts ==
    UNION {LinkedInPost(a, now).value :
             a \in UNION {RepoPostArgs(i) : i \in RepoPostIds}, now \in Times}

Repositories_save_persona(persona) ==
    /\ mem_personas' = InMemory_save_persona(mem_personas, persona)
    /\ personas_json' = File_save_persona(personas_json, persona)
    /\ last' = Returned("save_persona", persona, {})
    /\ personas_before' = <<mem_personas, personas_json>>
    /\ posts_before' = <<mem_posts, posts_json>>
    /\ PostStoresUnchanged
    /\ UNCHANGED <<backend, uuid_count, pc, req, locals, calls, ctor>>

\* ret: <<what the in-memory repository returned, what the file one returned>>
Repositories_delete_persona(persona_id) ==
    /\ mem_personas' = InMemory_delete_persona(mem_personas, persona_id)[1]
    /\ personas_json' = File_delete_persona(personas_json, persona_id)[1]
    /\ last' = Returned("delete_persona", persona_id,
                        <<InMemory_delete_persona(mem_personas, persona_id)[2],
                          File_delete_persona(personas_json, persona_id)[2]>>)
    /\ personas_before' = <<mem_personas, personas_json>>
    /\ posts_before' = <<mem_posts, posts_json>>
    /\ PostStoresUnchanged
    /\ UNCHANGED <<backend, uuid_count, pc, req, locals, calls, ctor>>

Repositories_save_post(post) ==
    /\ mem_posts' = InMemory_save_post(mem_posts, post)
    /\ posts_json' = File_save_post(posts_json, post)
    /\ last' = Returned("save_post", post, {})
    /\ personas_before' = <<mem_personas, personas_json>>
    /\ posts_before' = <<mem_posts, posts_json>>
    /\ PersonaStoresUnchanged
    /\ UNCHANGED <<backend, uuid_count, pc, req, locals, calls, ctor>>

\* the ids the reading operations are called with: those saved under, and "z",
\* under which nothing is ever saved
QueryIds == PersonaIds \cup RepoPostIds \cup {<<122>>}

\* a reading operation: both stores stay as they are, ret is
\* <<what the in-memory repository returned, what the file one returned>>
Repositories_read(op, arg, ret) ==
    /\ last' = Returned(op, arg, ret)
    /\ personas_before' = <<mem_personas, personas_json>>
    /\ posts_before' = <<mem_posts, posts_json>>
    /\ PersonaStoresUnchanged
    /\ PostStoresUnchanged
    /\ UNCHANGED <<backend, uuid_count, pc, req, locals, calls, ctor>>

Repositories_get_persona_by_id(persona_id) ==
    Repositories_read("get_persona_by_id", persona_id,
                      <<InMemory_get_persona_by_id(mem_personas, persona_id),
                        File_get_persona_by_id(personas_json, persona_id)>>)

Repositories_get_all_personas ==
    Repositories_read("get_all_personas", None,
                      <<InMemory_get_all_personas(mem_personas),
                        File_get_all_personas(personas_json)>>)

Repositories_get_post_by_id(post_id, now) ==
    Repositories_read("get_post_by_id", post_id,
                      <<InMemory_get_post_by_id(mem_posts, post_id),
                        File_get_post_by_id(posts_json, post_id, now)>>)

Repositories_get_posts_by_persona(persona_id, now) ==
    Repositories_read("get_posts_by_persona", persona_id,
                      <<InMemory_get_posts_by_persona(mem_posts, persona_id),
                        File_get_posts_by_persona(posts_json, persona_id, now)>>)

Repositories_get_all_posts(now) ==
    Repositories_read("get_all_posts", None,
                      <<InMemory_get_all_posts(mem_posts),
                        File_get_all_posts(posts_json, now)>>)

InitRepo ==
    /\ backend = "both"
    /\ mem_personas = EmptyDict
    /\ mem_posts = EmptyDict
    /\ personas_json = MissingFile
    /\ posts_json = MissingFile
    /\ uuid_count = 0
    /\ pc = "idle"
    /\ req = NoRequest
    /\ locals = NoLocals
    /\ calls = <<>>
    /\ last = Returned("none", None, {})
    /\ personas_before = <<EmptyDict, MissingFile>>
    /\ posts_before = <<EmptyDict, MissingFile>>
    /\ ctor = NoCtor

NextRepo ==
    \/ \E persona \in RepoPersonas : Repositories_save_persona(persona)
    \/ \E persona_id \in PersonaIds : Repositories_delete_persona(persona_id)
    \/ \E post \in RepoPosts : Repositories_save_post(post)
    \/ \E persona_id \in QueryIds : Repositories_get_persona_by_id(persona_id)
    \/ Repositories_get_all_personas
    \/ \E post_id \in QueryIds, now \in Times : Repositories_get_post_by_id(post_id, now)
    \/ \E persona_id \in QueryIds, now \in Times :
            Repositories_get_posts_by_persona(persona_id, now)
    \/ \E now \in Times : Repositories_get_all_posts(now)

SpecRepo == InitRepo /\ [][NextRepo]_vars

----------------------------------------------------------------------------
(* Entity construction on its own *)

\* what a caller may pass for a required field: "", None, "a", "e with acute"
FieldInputs == {<<>>, None, <<97>>, <<233>>}

ConstructorArgs ==
    {[PersonaArgs(i, n) EXCEPT !.niche = c, !.target_audience = t, !.localization = l] :
        i \in FieldInputs, n \in FieldInputs, c \in FieldInputs, t \in FieldInputs,
        l \in FieldInputs}

construct_persona(args) ==
    /\ ctor' = [kind |-> "Persona", args |-> args, now |-> None,
                result |-> Persona(args)]
    /\ PersonaStoresUnchanged
    /\ PostStoresUnchanged
    /\ UNCHANGED <<backend, uuid_count, pc, req, locals, calls, last,
                   personas_before, posts_before>>

\* what a caller may pass for created_at: nothing, or a datetime
CreatedAtInputs == {None, <<59, 5>>, <<7, 0>>}

\* the arguments of LinkedInPost(...): the three required fields vary, the
\* optional texts are left out together or given together
PostConstructorArgs ==
    {[id |-> i, persona_id |-> p, content |-> c,
      image_prompt |-> o, image_url |-> None, hashtags |-> None,
      created_at |-> t, market_analysis |-> o, generation_prompt |-> o] :
        i \in FieldInputs, p \in FieldInputs, c \in FieldInputs,
        o \in {None, <<109>>}, t \in CreatedAtInputs}

\* LinkedInPost(**args) evaluated when the clock reads now
construct_post(args, now) ==
    /\ ctor' = [kind |-> "LinkedInPost", args |-> args, now |-> now,
                result |-> LinkedInPost(args, now)]
    /\ PersonaStoresUnchanged
    /\ PostStoresUnchanged
    /\ UNCHANGED <<backend, uuid_count, pc, req, locals, calls, last,
                   personas_before, posts_before>>

RequestConstructorArgs ==
    {[persona_id |-> p, topic_hint |-> h, additional_context |-> x] :
        p \in FieldInputs, h \in {None, <<>>, <<116>>}, x \in {None, <<120>>}}

construct_request(args) ==
    /\ ctor' = [kind |-> "PostGenerationRequest", args |-> args, now |-> None,
                result |-> PostGenerationRequest(args)]
    /\ PersonaStoresUnchanged
    /\ PostStoresUnchanged
    /\ UNCHANGED <<backend, uuid_count, pc, req, locals, calls, last,
                   personas_before, posts_before>>

InitEntity ==
    /\ backend = "none"
    /\ mem_personas = EmptyDict
    /\ mem_posts = EmptyDict
    /\ personas_json = MissingFile
    /\ posts_json = MissingFile
    /\ uuid_count = 0
    /\ pc = "idle"
    /\ req = NoRequest
    /\ locals = NoLocals
    /\ calls = <<>>
    /\ last = Returned("none", None, {})
    /\ personas_before = <<EmptyDict, MissingFile>>
    /\ posts_before = <<EmptyDict, MissingFile>>
    /\ ctor = NoCtor

NextEntity ==
    \/ \E args \in ConstructorArgs : construct_persona(args)
    \/ \E args \in PostConstructorArgs, now \in Times : construct_post(args, now)
    \/ \E args \in RequestConstructorArgs : construct_request(args)

SpecEntity == InitEntity /\ [][NextEntity]_vars

----------------------------------------------------------------------------
(* The file-backed repositories on a file system that can hold anything and  *)
(* can fail a write. A file that is not a JSON object written by the         *)
(* repository has doc = EmptyDict and one of these kinds:                    *)
(*   "garbage"      text json.load rejects (an empty file, a cut-off dump)   *)
(*   "undecodable"  bytes that are not text in the file's encoding           *)
(*   "array"        the JSON text [], well-formed but not an object          *)

MalformedKinds == {"garbage", "undecodable", "array"}

Malformed(kind) == [kind |-> kind, doc |-> EmptyDict]

\* the exception that leaves _load_personas / _load_posts: f.read() inside
\* json.load raises UnicodeDecodeError, which is neither a JSONDecodeError nor
\* an IOError; "" when the call returns
File_load_error(file) ==
    IF file.kind = "undecodable" THEN "UnicodeDecodeError" ELSE ""

\* the type of what _load_personas / _load_posts returns: json.load hands
\* back whatever the document is
File_load_type(file) == IF file.kind = "array" THEN "list" ELSE "dict"

\* the step of `with open(path, 'w') as f: json.dump(...)` that raises IOError
WriteFaults == {"none", "open", "dump", "close"}

\* the exception that would leave _save_personas / _save_posts if IOError were
\* not caught
File_save_error_uncaught(fault) == IF fault = "none" THEN "" ELSE "IOError"

\* the exception that leaves _save_personas / _save_posts: `except IOError:
\* pass` lets none out
File_save_error(fault) == ""

\* the files a write of new over file can leave behind: open(path, 'w') that
\* fails has not truncated; a dump that fails leaves a cut-off text; a close
\* that fails may or may not have flushed everything
File_write_outcomes(file, new, fault) ==
    IF fault = "none" THEN {new}
    ELSE IF fault = "open" THEN {file}
    ELSE IF fault = "dump" THEN {Malformed("garbage")}
    ELSE {Malformed("garbage"), new}

\* how a repository method ends: the exception raised ("" for none), the
\* value returned, the file afterwards, the helper calls made
Outcome(raised, ret, file, log) ==
    [raised |-> raised, ret |-> ret, file |-> file, log |-> log]

LoadCall(name, file) ==
    IF File_load_error(file) = "" THEN Call(name, <<>>, None) ELSE FailedCall(name, <<>>)

SaveCall(name, fault) ==
    IF fault = "none" THEN Call(name, <<fault>>, None) ELSE FailedCall(name, <<fault>>)

\* the part every method shares: _load, then `in` / item access on the result
AfterLoad(name, file, list_error, on_dict) ==
    IF File_load_error(file) # ""
    THEN {Outcome(File_load_error(file), {}, file, <<LoadCall(name, file)>>)}
    ELSE IF File_load_type(file) = "list" /\ list_error # ""
    THEN {Outcome(list_error, {}, file, <<LoadCall(name, file)>>)}
    ELSE on_dict

\* the end of a method that writes new: _save, then return ret
AfterSave(load_name, save_name, file, new, fault, ret) ==
    {Outcome(File_save_error(fault), ret, after,
             <<LoadCall(load_name, file), SaveCall(save_name, fault)>>) :
        after \in File_write_outcomes(file, new, fault)}

\* FilePersonaRepository, method by method
FilePersonaRepository_save_persona_outcomes(file, persona, fault) ==
    AfterLoad("_load_personas", file, "TypeError",
              AfterSave("_load_personas", "_save_personas", file,
                        File_save_persona(file, persona), fault, {}))

FilePersonaRepository_get_persona_by_id_outcomes(file, persona_id) ==
    AfterLoad("_load_personas", file, "",
              {Outcome("", File_get_persona_by_id(file, persona_id), file,
                       <<LoadCall("_load_personas", file)>>)})

FilePersonaRepository_get_all_personas_outcomes(file) ==
    AfterLoad("_load_personas", file, "AttributeError",
              {Outcome("", File_get_all_personas(file), file,
                       <<LoadCall("_load_personas", file)>>)})

FilePersonaRepository_delete_persona_outcomes(file, persona_id, fault) ==
    AfterLoad("_load_personas", file, "",
              IF ~File_delete_persona(file, persona_id)[2]
              THEN {Outcome("", FALSE, file, <<LoadCall("_load_personas", file)>>)}
              ELSE AfterSave("_load_personas", "_save_personas", file,
                             File_delete_persona(file, persona_id)[1], fault, TRUE))

\* FilePostRepository, method by method
FilePostRepository_save_post_outcomes(file, post, fault) ==
    AfterLoad("_load_posts", file, "TypeError",
              AfterSave("_load_posts", "_save_posts", file,
                        File_save_post(file, post), fault, {}))

FilePostRepository_get_post_by_id_outcomes(file, post_id, now) ==
    AfterLoad("_load_posts", file, "",
              {Outcome("", File_get_post_by_id(file, post_id, now), file,
                       <<LoadCall("_load_posts", file)>>)})

FilePostRepository_get_posts_by_persona_outcomes(file, persona_id, now) ==
    AfterLoad("_load_posts", file, "AttributeError",
              {Outcome("", File_get_posts_by_persona(file, persona_id, now), file,
                       <<LoadCall("_load_posts", file)>>)})

FilePostRepository_get_all_posts_outcomes(file, now) ==
    AfterLoad("_load_posts", file, "AttributeError",
              {Outcome("", File_get_all_posts(file, now), file,
                       <<LoadCall("_load_posts", file)>>)})

\* the caller's view of a method that ended as o
Ended(op, arg, o) ==
    IF o.raised = "" THEN Returned(op, arg, o.ret) ELSE Raised(op, arg, o.raised)

\* a method of FilePersonaRepository run to its end
FilePersonaRepository_call(op, arg, outcomes) ==
    /\ \E o \in outcomes :
        /\ personas_json' = o.file
        /\ last' = Ended(op, arg, o)
        /\ calls' = o.log
    /\ personas_before' = <<mem_personas, personas_json>>
    /\ posts_before' = <<mem_posts, posts_json>>
    /\ UNCHANGED <<backend, mem_personas, mem_posts, posts_json, uuid_count, pc,
                   req, locals, ctor>>

\* a method of FilePostRepository run to its end
FilePostRepository_call(op, arg, outcomes) ==
    /\ \E o \in outcomes :
        /\ posts_json' = o.file
        /\ last' = Ended(op, arg, o)
        /\ calls' = o.log
    /\ personas_before' = <<mem_personas, personas_json>>
    /\ posts_before' = <<mem_posts, posts_json>>
    /\ UNCHANGED <<backend, mem_personas, mem_posts, personas_json, uuid_count, pc,
                   req, locals, ctor>>

FilePersonaRepository_save_persona(persona, fault) ==
    FilePersonaRepository_call("save_persona", persona,
        FilePersonaRepository_save_persona_outcomes(personas_json, persona, fault))

FilePersonaRepository_get_persona_by_id(persona_id) ==
    FilePersonaRepository_call("get_persona_by_id", persona_id,
        FilePersonaRepository_get_persona_by_id_outcomes(personas_json, persona_id))

FilePersonaRepository_get_all_personas ==
    FilePersonaRepository_call("get_all_personas", None,
        FilePersonaRepository_get_all_personas_outcomes(personas_json))

FilePersonaRepository_delete_persona(persona_id, fault) ==
    FilePersonaRepository_call("delete_persona", persona_id,
        FilePersonaRepository_delete_persona_outcomes(personas_json, persona_id, fault))

FilePostRepository_save_post(post, fault) ==
    FilePostRepository_call("save_post", post,
        FilePostRepository_save_post_outcomes(posts_json, post, fault))

FilePostRepository_get_post_by_id(post_id, now) ==
    FilePostRepository_call("get_post_by_id", post_id,
        FilePostRepository_get_post_by_id_outcomes(posts_json, post_id, now))

FilePostRepository_get_posts_by_persona(persona_id, now) ==
    FilePostRepository_call("get_posts_by_persona", persona_id,
        FilePostRepository_get_posts_by_persona_outcomes(posts_json, persona_id, now))

FilePostRepository_get_all_posts(now) ==
    FilePostRepository_call("get_all_posts", None,
        FilePostRepository_get_all_posts_outcomes(posts_json, now))

\* one persona per id, one post per id
FaultPersonas == UNION {Persona(PersonaArgs(i, <<227, 34>>)).value : i \in PersonaIds}

FaultPosts ==
    UNION {LinkedInPost([id |-> i, persona_id |-> <<112>>, content |-> <<231, 92>>,
                         image_prompt |-> None, image_url |-> None, hashtags |-> None,
                         created_at |-> <<59, 5>>, market_analysis |-> None,
                         generation_prompt |-> None], <<7, 0>>).value :
             i \in RepoPostIds}

\* what the repositories find at their paths: nothing, or a file not theirs
FoundFiles == {MissingFile} \cup {Malformed(k) : k \in MalformedKinds}

InitFaults ==
    /\ backend = "file"
    /\ mem_personas = EmptyDict
    /\ mem_posts = EmptyDict
    /\ personas_json \in FoundFiles
    /\ posts_json \in FoundFiles
    /\ uuid_count = 0
    /\ pc = "idle"
    /\ req = NoRequest
    /\ locals = NoLocals
    /\ calls = <<>>
    /\ last = Returned("none", None, {})
    /\ personas_before = <<EmptyDict, personas_json>>
    /\ posts_before = <<EmptyDict, posts_json>>
    /\ ctor = NoCtor

NextFaults ==
    \/ \E persona \in FaultPersonas, fault \in WriteFaults :
            FilePersonaRepository_save_persona(persona, fault)
    \/ \E persona_id \in PersonaIds : FilePersonaRepository_get_persona_by_id(persona_id)
    \/ FilePersonaRepository_get_all_personas
    \/ \E persona_id \in PersonaIds, fault \in WriteFaults :
            FilePersonaRepository_delete_persona(persona_id, fault)
    \/ \E post \in FaultPosts, fault \in WriteFaults :
            FilePostRepository_save_post(post, fault)
    \/ \E post_id \in RepoPostIds, now \in Times :
            FilePostRepository_get_post_by_id(post_id, now)
    \/ \E persona_id \in PersonaIds, now \in Times :
            FilePostRepository_get_posts_by_persona(persona_id, now)
    \/ \E now \in Times : FilePostRepository_get_all_posts(now)

SpecFaults == InitFaults /\ [][NextFaults]_vars

----------------------------------------------------------------------------
(* Two writers on one file-backed store, e.g. two runs of the command line   *)
(* at once. Each runs one save: _load (one step), then the assignment and    *)
(* _save, which rewrites the whole document (one step). Here pc, req,        *)
(* locals and last are per writer, and calls is the order of the steps.      *)

Writers == {1, 2}

\* the id each writer saves under: "p" and "e with acute accent"
WriterId(w) == IF w = 1 THEN <<112>> ELSE <<233>>

\* a record of a third id, "z", that the store may hold before the two saves
BystanderPersona == Persona(PersonaArgs(<<122>>, <<74>>)).value

BystanderPost ==
    LinkedInPost([id |-> <<122>>, persona_id |-> <<112>>, content |-> <<99>>,
                  image_prompt |-> None, image_url |-> None, hashtags |-> None,
                  created_at |-> <<59, 5>>, market_analysis |-> None,
                  generation_prompt |-> None], <<7, 0>>).value

WriterPersonas(w) == UNION {Persona(PersonaArgs(WriterId(w), n)).value : n \in PersonaNames}

WriterPosts(w) ==
    UNION {LinkedInPost([id |-> WriterId(w), persona_id |-> <<112>>, content |-> c,
                         image_prompt |-> None, image_url |-> None, hashtags |-> None,
                         created_at |-> <<59, 5>>, market_analysis |-> None,
                         generation_prompt |-> None], <<7, 0>>).value :
             c \in {<<231, 92>>, <<99>>}}

Step(w, step) == [writer |-> w, step |-> step]

\* save_persona, line 58: personas = self._load_personas()
Writer_save_persona_load(w) ==
    /\ pc[w] = "start"
    /\ last[w].op = "save_persona"
    /\ locals' = [locals EXCEPT ![w] = File_load_personas(personas_json)]
    /\ pc' = [pc EXCEPT ![w] = "loaded"]
    /\ calls' = Append(calls, Step(w, "load"))
    /\ UNCHANGED <<backend, mem_personas, mem_posts, personas_json, posts_json,
                   uuid_count, req, last, personas_before, posts_before, ctor>>

\* a rewrite that reads the document again and adds its entry to that
Writer_save_persona_rewrite_merging(w) ==
    /\ pc[w] = "loaded"
    /\ last[w].op = "save_persona"
    /\ personas_json' = File_save_persona(personas_json, req[w])
    /\ pc' = [pc EXCEPT ![w] = "returned"]
    /\ last' = [last EXCEPT ![w] = Returned("save_persona", req[w], {})]
    /\ calls' = Append(calls, Step(w, "rewrite"))
    /\ UNCHANGED <<backend, mem_personas, mem_posts, posts_json, uuid_count, req,
                   locals, personas_before, posts_before, ctor>>

\* save_persona, lines 59-60: the entry is assigned in the dict loaded
\* earlier and that dict is written as the whole document
Writer_save_persona_rewrite(w) ==
    /\ pc[w] = "loaded"
    /\ last[w].op = "save_persona"
    /\ personas_json' = File_save_personas(
                            DictSet(locals[w], req[w].id, File_persona_to_dict(req[w])))
    /\ pc' = [pc EXCEPT ![w] = "returned"]
    /\ last' = [last EXCEPT ![w] = Returned("save_persona", req[w], {})]
    /\ calls' = Append(calls, Step(w, "rewrite"))
    /\ UNCHANGED <<backend, mem_personas, mem_posts, posts_json, uuid_count, req,
                   locals, personas_before, posts_before, ctor>>

\* save_post, line 57: posts = self._load_posts()
Writer_save_post_load(w) ==
    /\ pc[w] = "start"
    /\ last[w].op = "save_post"
    /\ locals' = [locals EXCEPT ![w] = File_load_posts(posts_json)]
    /\ pc' = [pc EXCEPT ![w] = "loaded"]
    /\ calls' = Append(calls, Step(w, "load"))
    /\ UNCHANGED <<backend, mem_personas, mem_posts, personas_json, posts_json,
                   uuid_count, req, last, personas_before, posts_before, ctor>>

\* save_post, lines 58-59
Writer_save_post_rewrite(w) ==
    /\ pc[w] = "loaded"
    /\ last[w].op = "save_post"
    /\ posts_json' = File_save_posts(
                         DictSet(locals[w], req[w].id, File_post_to_dict(req[w])))
    /\ pc' = [pc EXCEPT ![w] = "returned"]
    /\ last' = [last EXCEPT ![w] = Returned("save_post", req[w], {})]
    /\ calls' = Append(calls, Step(w, "rewrite"))
    /\ UNCHANGED <<backend, mem_personas, mem_posts, personas_json, uuid_count, req,
                   locals, personas_before, posts_before, ctor>>

\* both writers are about to call save on the same store, which is missing
\* or holds the bystander's record
InitWriters ==
    /\ backend = "file"
    /\ mem_personas = EmptyDict
    /\ mem_posts = EmptyDict
    /\ uuid_count = 0
    /\ pc = [w \in Writers |-> "start"]
    /\ locals = [w \in Writers |-> EmptyDict]
    /\ calls = <<>>
    /\ ctor = NoCtor
    /\ \/ /\ personas_json \in
                {MissingFile} \cup {File_save_persona(MissingFile, b) : b \in BystanderPersona}
          /\ posts_json = MissingFile
          /\ \E p1 \in WriterPersonas(1), p2 \in WriterPersonas(2) :
                /\ req = [w \in Writers |-> IF w = 1 THEN p1 ELSE p2]
                /\ last = [w \in Writers |->
                              Running("save_persona", IF w = 1 THEN p1 ELSE p2)]
       \/ /\ personas_json = MissingFile
          /\ posts_json \in
                {MissingFile} \cup {File_save_post(MissingFile, b) : b \in BystanderPost}
          /\ \E p1 \in WriterPosts(1), p2 \in WriterPosts(2) :
                /\ req = [w \in Writers |-> IF w = 1 THEN p1 ELSE p2]
                /\ last = [w \in Writers |->
                              Running("save_post", IF w = 1 THEN p1 ELSE p2)]
    /\ personas_before = <<EmptyDict, personas_json>>
    /\ posts_before = <<EmptyDict, posts_json>>

NextWriters ==
    \/ \E w \in Writers : Writer_save_persona_load(w)
    \/ \E w \in Writers : Writer_save_persona_rewrite(w)
    \/ \E w \in Writers : Writer_save_post_load(w)
    \/ \E w \in Writers : Writer_save_post_rewrite(w)

SpecWriters == InitWriters /\ [][NextWriters]_vars

----------------------------------------------------------------------------
(* Two create_persona calls for the same id on one file-backed store, e.g.   *)
(* two runs of the command line at once. Each call is two awaited repository *)
(* calls: the lookup (followed at once by the raise when it resolves) and    *)
(* the save. pc, req, locals (existing) and last are per caller, calls is    *)
(* the order of the steps, personas_before the store before both calls.      *)

\* the persona each caller creates: the same id, any of the names
CreatorPersonas(id) == UNION {Persona(PersonaArgs(id, n)).value : n \in PersonaNames}

\* the record "K" of that id that the store may already hold
StoredPersona(id) == Persona(PersonaArgs(id, <<75>>)).value

\* line 16: existing = await get_persona_by_id(persona.id); lines 17-18
Creator_check(w) ==
    /\ pc[w] = "start"
    /\ LET existing == File_get_persona_by_id(personas_json, req[w].id)
       IN  /\ locals' = [locals EXCEPT ![w] = existing]
           /\ IF existing # {}
              THEN /\ pc' = [pc EXCEPT ![w] = "raised"]
                   /\ last' = [last EXCEPT ![w] =
                                 Raised("create_persona", req[w], "already exists")]
              ELSE /\ pc' = [pc EXCEPT ![w] = "checked"]
                   /\ UNCHANGED last
    /\ calls' = Append(calls, Step(w, "check"))
    /\ UNCHANGED <<backend, mem_personas, mem_posts, personas_json, posts_json,
                   uuid_count, req, personas_before, posts_before, ctor>>

\* a save that looks the id up again and raises when it has been stored since
Creator_save_if_absent(w) ==
    /\ pc[w] = "checked"
    /\ IF File_get_persona_by_id(personas_json, req[w].id) # {}
       THEN /\ pc' = [pc EXCEPT ![w] = "raised"]
            /\ last' = [last EXCEPT ![w] =
                          Raised("create_persona", req[w], "already exists")]
            /\ UNCHANGED personas_json
       ELSE /\ personas_json' = File_save_persona(personas_json, req[w])
            /\ pc' = [pc EXCEPT ![w] = "returned"]
            /\ last' = [last EXCEPT ![w] = Returned("create_persona", req[w], {})]
    /\ calls' = Append(calls, Step(w, "save"))
    /\ UNCHANGED <<backend, mem_personas, mem_posts, posts_json, uuid_count, req,
                   locals, personas_before, posts_before, ctor>>

\* line 20: await save_persona(persona)
Creator_save(w) ==
    /\ pc[w] = "checked"
    /\ personas_json' = File_save_persona(personas_json, req[w])
    /\ pc' = [pc EXCEPT ![w] = "returned"]
    /\ last' = [last EXCEPT ![w] = Returned("create_persona", req[w], {})]
    /\ calls' = Append(calls, Step(w, "save"))
    /\ UNCHANGED <<backend, mem_personas, mem_posts, posts_json, uuid_count, req,
                   locals, personas_before, posts_before, ctor>>

\* both callers are about to call create_persona with the same id on a
\* store that is missing, holds another id's record, or holds that id's
InitCreators ==
    /\ backend = "file"
    /\ mem_personas = EmptyDict
    /\ mem_posts = EmptyDict
    /\ posts_json = MissingFile
    /\ uuid_count = 0
    /\ pc = [w \in Writers |-> "start"]
    /\ locals = [w \in Writers |-> {}]
    /\ calls = <<>>
    /\ ctor = NoCtor
    /\ \E id \in PersonaIds :
        /\ personas_json \in
              {MissingFile}
                \cup {File_save_persona(MissingFile, b) : b \in BystanderPersona}
                \cup {File_save_persona(MissingFile, b) : b \in StoredPersona(id)}
        /\ \E p1 \in CreatorPersonas(id), p2 \in CreatorPersonas(id) :
            /\ req = [w \in Writers |-> IF w = 1 THEN p1 ELSE p2]
            /\ last = [w \in Writers |->
                          Running("create_persona", IF w = 1 THEN p1 ELSE p2)]
    /\ personas_before = <<EmptyDict, personas_json>>
    /\ posts_before = <<EmptyDict, MissingFile>>

NextCreators ==
    \/ \E w \in Writers : Creator_check(w)
    \/ \E w \in Writers : Creator_save(w)

SpecCreators == InitCreators /\ [][NextCreators]_vars

----------------------------------------------------------------------------

(* infrastructure/openai_service.py: OpenAIService against a remote API.     *)
(* Here locals is the service object (self), calls the keyword arguments of  *)
(* every client.chat.completions.create(...) it has made, pc whether it has  *)
(* been used: "idle" (none constructed), "constructed", "first" (after its   *)
(* first stage call), "later".                                               *)

\* "gpt-4", "gpt-4-turbo", "gpt-5", "gpt-5-turbo"
Models == {"gpt-4", "gpt-4-turbo", "gpt-5", "gpt-5-turbo"}

\* the api_key argument and the OPENAI_API_KEY variable: unset, "", "sk"
ApiKeys == {None, <<>>, <<115, 107>>}

\* what the remote model answers: " h " and "h"
Responses == {<<32, 104, 32>>, <<104>>}

\* str.strip()
RECURSIVE Strip(_)
Strip(t) ==
    IF t = <<>> THEN <<>>
    ELSE IF Head(t) \in {32, 9, 10, 13} THEN Strip(Tail(t))
    ELSE IF t[Len(t)] \in {32, 9, 10, 13} THEN Strip(SubSeq(t, 1, Len(t) - 1))
    ELSE t

NoService == [api_key |-> None, model |-> "", client |-> None, has_real_key |-> FALSE]

\* __init__: api_key or os.getenv("OPENAI_API_KEY"); nothing is checked
OpenAIService_init(api_key, model, env) ==
    /\ locals' = [api_key |-> IF Falsy(api_key) THEN env ELSE api_key,
                  model |-> model,
                  client |-> None,
                  has_real_key |-> ~Falsy(IF Falsy(api_key) THEN env ELSE api_key)]
    /\ pc' = "constructed"
    /\ calls' = <<>>
    /\ last' = Returned("__init__", <<api_key, model, env>>, {})
    /\ PersonaStoresUnchanged
    /\ PostStoresUnchanged
    /\ UNCHANGED <<backend, uuid_count, req, personas_before, posts_before, ctor>>

\* _get_client: the message of the ValueError raised, "" when the client is returned
OpenAIService_get_client_error(self) ==
    IF self.client = None /\ ~self.has_real_key
    THEN "OpenAI API key is required for post generation. Please set OPENAI_API_KEY environment variable."
    ELSE ""

\* _get_client: self afterwards, the client built on first need
OpenAIService_get_client(self) ==
    IF self.client = None /\ self.has_real_key
    THEN [self EXCEPT !.client = self.api_key]
    ELSE self

\* a stage call that ended: pc records whether it was the object's first
StageEnded ==
    /\ pc' = IF pc = "constructed" THEN "first" ELSE "later"
    /\ PersonaStoresUnchanged
    /\ PostStoresUnchanged
    /\ UNCHANGED <<backend, uuid_count, req, personas_before, posts_before, ctor>>

\* _get_client(), then client.chat.completions.create(**kwargs); response is
\* the text answered, None when the request fails; ret is what the method
\* makes of the text
StageRequest(op, args, kwargs, response, ret) ==
    IF OpenAIService_get_client_error(locals) # ""
    THEN /\ last' = Raised(op, args, OpenAIService_get_client_error(locals))
         /\ UNCHANGED <<locals, calls>>
    ELSE /\ locals' = OpenAIService_get_client(locals)
         /\ calls' = Append(calls, kwargs)
         /\ last' = IF response = None THEN Raised(op, args, "APIError")
                    ELSE Returned(op, args, ret)

\* generate_market_analysis_and_prompt: the f-string of lines 52-65 reads
\* persona.language before _get_client() is reached (line 79); the parse of
\* the answer (lines 89-101) is left open: parsed is any pair of texts
OpenAIService_generate_market_analysis_and_prompt(persona, topic_hint, additional_context, response, parsed) ==
    /\ pc # "idle"
    /\ Len(calls) < MaxRequests
    /\ IF "language" \notin DOMAIN persona
       THEN /\ last' = Raised("generate_market_analysis_and_prompt",
                              <<persona, topic_hint, additional_context>>,
                              "AttributeError")
            /\ UNCHANGED <<locals, calls>>
       ELSE StageRequest("generate_market_analysis_and_prompt",
                         <<persona, topic_hint, additional_context>>,
                         [model |-> locals.model,
                          stage |-> "generate_market_analysis_and_prompt",
                          temperature |-> "0.8"],
                         response, parsed)
    /\ StageEnded

\* generate_post_content, lines 120-130
OpenAIService_generate_post_content(generation_prompt, persona, response) ==
    /\ pc # "idle"
    /\ Len(calls) < MaxRequests
    /\ StageRequest("generate_post_content", <<generation_prompt, persona>>,
                    [model |-> locals.model, stage |-> "generate_post_content",
                     temperature |-> "0.9"],
                    response, Strip(response))
    /\ StageEnded

\* generate_image_prompt, lines 152-177: the persona attributes read there
\* (niche, industry, personal_brand_keywords, engagement_style) all exist
OpenAIService_generate_image_prompt(post_content, market_analysis, persona, response) ==
    /\ pc # "idle"
    /\ Len(calls) < MaxRequests
    /\ StageRequest("generate_image_prompt", <<post_content, market_analysis, persona>>,
                    [model |-> locals.model, stage |-> "generate_image_prompt",
                     temperature |-> "0.7"],
                    response, Strip(response))
    /\ StageEnded

InitService ==
    /\ backend = "none"
    /\ mem_personas = EmptyDict
    /\ mem_posts = EmptyDict
    /\ personas_json = MissingFile
    /\ posts_json = MissingFile
    /\ uuid_count = 0
    /\ pc = "idle"
    /\ req = NoRequest
    /\ locals = NoService
    /\ calls = <<>>
    /\ last = Returned("none", None, {})
    /\ personas_before = <<EmptyDict, MissingFile>>
    /\ posts_before = <<EmptyDict, MissingFile>>
    /\ ctor = NoCtor

NextService ==
    \/ \E api_key \in ApiKeys, model \in Models, env \in ApiKeys :
            OpenAIService_init(api_key, model, env)
    \/ \E persona \in FaultPersonas, topic_hint \in {None, <<116>>},
          response \in Responses \cup {None}, analysis \in Analyses, prompt \in Prompts :
            OpenAIService_generate_market_analysis_and_prompt(
                persona, topic_hint, None, response, <<analysis, prompt>>)
    \/ \E generation_prompt \in Prompts, persona \in FaultPersonas,
          response \in Responses \cup {None} :
            OpenAIService_generate_post_content(generation_prompt, persona, response)
    \/ \E market_analysis \in Analyses, persona \in FaultPersonas,
          response \in Responses \cup {None} :
            OpenAIService_generate_image_prompt(<<231, 92>>, market_analysis, persona,
                                                response)

SpecService == InitService /\ [][NextService]_vars

----------------------------------------------------------------------------
(* infrastructure/openai_service.py lines 89-101: what stage 1 makes of the  *)
(* text the model answered. Here req is the text (content), last the pair    *)
(* returned, pc "received" until the text has been parsed.                   *)

MaxPieces == 3

\* "GENERATION PROMPT:" and "MARKET ANALYSIS:"
GenerationPromptToken ==
    <<71, 69, 78, 69, 82, 65, 84, 73, 79, 78, 32, 80, 82, 79, 77, 80, 84, 58>>

MarketAnalysisToken == <<77, 65, 82, 75, 69, 84, 32, 65, 78, 65, 76, 89, 83, 73, 83, 58>>

\* str.find, counted from 1: the first index >= from at which sub occurs in
\* t, 0 when there is none
RECURSIVE Find(_, _, _)
Find(t, sub, from) ==
    IF from + Len(sub) - 1 > Len(t) THEN 0
    ELSE IF SubSeq(t, from, from + Len(sub) - 1) = sub THEN from
    ELSE Find(t, sub, from + 1)

\* sub in t
Contains(t, sub) == Find(t, sub, 1) # 0

\* t.split(sep): the texts between the occurrences of sep, from left to right
RECURSIVE Split(_, _)
Split(t, sep) ==
    LET i == Find(t, sep, 1)
    IN  IF i = 0 THEN <<t>>
        ELSE <<SubSeq(t, 1, i - 1)>> \o Split(SubSeq(t, i + Len(sep), Len(t)), sep)

\* t.replace(old, new): every occurrence, from left to right
RECURSIVE Replace(_, _, _)
Replace(t, old, new) ==
    LET i == Find(t, old, 1)
    IN  IF i = 0 THEN t
        ELSE SubSeq(t, 1, i - 1) \o new
                \o Replace(SubSeq(t, i + Len(old), Len(t)), old, new)

\* lines 92-99: <<market_analysis, generation_prompt>>
OpenAIService_parse_stage1(content) ==
    IF Contains(content, GenerationPromptToken)
    THEN LET parts == Split(content, GenerationPromptToken)
         IN  <<Strip(Replace(parts[1], MarketAnalysisToken, <<>>)), Strip(parts[2])>>
    ELSE <<SubSeq(content, 1, Len(content) \div 2),
           SubSeq(content, Len(content) \div 2 + 1, Len(content))>>

\* the pieces an answer is put together from: the two tokens, " ", "a", and
\* "b" followed by a newline
Pieces == {GenerationPromptToken, MarketAnalysisToken, <<32>>, <<97>>, <<98, 10>>}

RECURSIVE Texts(_)
Texts(n) ==
    IF n = 0 THEN {<<>>}
    ELSE Texts(n - 1) \cup {t \o p : t \in Texts(n - 1), p \in Pieces}

\* lines 92-101
OpenAIService_parse ==
    /\ pc = "received"
    /\ pc' = "returned"
    /\ last' = Returned("generate_market_analysis_and_prompt", req,
                        {OpenAIService_parse_stage1(req)})
    /\ UNCHANGED <<backend, mem_personas, mem_posts, personas_json, posts_json,
                   uuid_count, req, locals, calls, personas_before, posts_before, ctor>>

\* line 89: content = response.choices[0].message.content
InitParse ==
    /\ backend = "none"
    /\ mem_personas = EmptyDict
    /\ mem_posts = EmptyDict
    /\ personas_json = MissingFile
    /\ posts_json = MissingFile
    /\ uuid_count = 0
    /\ pc = "received"
    /\ req \in Texts(MaxPieces)
    /\ locals = NoService
    /\ calls = <<>>
    /\ last = Returned("none", None, {})
    /\ personas_before = <<EmptyDict, MissingFile>>
    /\ posts_before = <<EmptyDict, MissingFile>>
    /\ ctor = NoCtor

NextParse == OpenAIService_parse

SpecParse == InitParse /\ [][NextParse]_vars

----------------------------------------------------------------------------

(* infrastructure/mock_ai_service.py: MockAIService.generate_post_content.   *)
(* A post it returns is given by the canned text chosen (template) and the   *)
(* texts taken from the persona that the f-string puts into it (fields).     *)

\* str.lower() and str.upper() of one character (the letters A-Z, a-z)
LowerChar(c) == IF c \in 65..90 THEN c + 32 ELSE c

UpperChar(c) == IF c \in 97..122 THEN c - 32 ELSE c

\* str.lower()
Lower(t) == [i \in 1..Len(t) |-> LowerChar(t[i])]

\* str.title(): a letter that follows no letter is made upper case, every
\* other letter lower case
Title(t) ==
    [i \in 1..Len(t) |->
        IF i = 1 \/ LowerChar(t[i - 1]) \notin 97..122
        THEN UpperChar(t[i]) ELSE LowerChar(t[i])]

\* "startup", "marketing", "AI", "artificial intelligence"
KeywordStartup == <<115, 116, 97, 114, 116, 117, 112>>

KeywordMarketing == <<109, 97, 114, 107, 101, 116, 105, 110, 103>>

KeywordAI == <<65, 73>>

KeywordArtificialIntelligence ==
    <<97, 114, 116, 105, 102, 105, 99, 105, 97, 108, 32,
      105, 110, 116, 101, 108, 108, 105, 103, 101, 110, 99, 101>>

\* lines 69-75: the topic chosen
MockAIService_topic(generation_prompt) ==
    IF Contains(Lower(generation_prompt), KeywordStartup) THEN "startup lessons"
    ELSE IF Contains(Lower(generation_prompt), KeywordMarketing) THEN "marketing strategy"
    ELSE IF \/ Contains(Lower(generation_prompt), KeywordAI)
            \/ Contains(Lower(generation_prompt), KeywordArtificialIntelligence)
         THEN "AI innovation"
    ELSE "professional growth"

\* lines 77-169: the post for a topic
MockAIService_post(topic, persona) ==
    LET keyword == Replace(persona.personal_brand_keywords[1], <<32>>, <<>>)
    IN  IF topic \in {"startup lessons", "marketing strategy", "AI innovation"}
        THEN [template |-> topic, fields |-> <<keyword>>]
        ELSE [template |-> "generic",
              fields |-> <<Lower(persona.niche), Title(persona.tone),
                           Lower(persona.industry), persona.tone,
                           Lower(persona.target_audience), keyword,
                           Replace(Lower(persona.niche), <<32>>, <<>>)>>]

\* the pieces a generation prompt is put together from: "startup",
\* "Marketing", "AI", "artificial intelligence", " " and "x"
PromptPieces ==
    {KeywordStartup, <<77>> \o Tail(KeywordMarketing), KeywordAI,
     KeywordArtificialIntelligence, <<32>>, <<120>>}

RECURSIVE PromptTexts(_)
PromptTexts(n) ==
    IF n = 0 THEN {<<>>}
    ELSE PromptTexts(n - 1) \cup {t \o p : t \in PromptTexts(n - 1), p \in PromptPieces}

\* personas with a niche "N n" and a first brand keyword "k w"
MockPersonas ==
    {[p EXCEPT !.niche = <<78, 32, 110>>, !.personal_brand_keywords = <<<<107, 32, 119>>>>] :
        p \in FaultPersonas}

\* req is <<generation_prompt, persona>>, the arguments of the call
MockAIService_generate_post_content ==
    /\ pc = "called"
    /\ pc' = "returned"
    /\ last' = Returned("generate_post_content", req,
                        {MockAIService_post(MockAIService_topic(req[1]), req[2])})
    /\ UNCHANGED <<backend, mem_personas, mem_posts, personas_json, posts_json,
                   uuid_count, req, locals, calls, personas_before, posts_before, ctor>>

InitMock ==
    /\ backend = "none"
    /\ mem_personas = EmptyDict
    /\ mem_posts = EmptyDict
    /\ personas_json = MissingFile
    /\ posts_json = MissingFile
    /\ uuid_count = 0
    /\ pc = "called"
    /\ req \in PromptTexts(MaxPieces) \X MockPersonas
    /\ locals = NoLocals
    /\ calls = <<>>
    /\ last = Returned("none", None, {})
    /\ personas_before = <<EmptyDict, MissingFile>>
    /\ posts_before = <<EmptyDict, MissingFile>>
    /\ ctor = NoCtor

NextMock == MockAIService_generate_post_content

SpecMock == InitMock /\ [][NextMock]_vars

----------------------------------------------------------------------------

(* Persona objects and the references to them. Persona is a dataclass that  *)
(* is not frozen, so a caller can assign to the attributes of an object it  *)
(* holds. Here locals is the heap: the Persona objects constructed so far,  *)
(* an object's reference being its index; mem_personas maps each key to the *)
(* reference of the object stored under it. personas_before is              *)
(* <<in-memory, file>>: for each id, what get_persona_by_id returned right  *)
(* after the last save or delete of that id.                                *)

MaxObjects == 3

\* the objects the in-memory repository holds, by key
Deref(personas, heap) == [k \in DOMAIN personas |-> heap[personas[k]]]

\* in_memory_persona_repository.py line 15: the object itself is stored
InMemory_save_persona_object(personas, heap, ref) ==
    DictSet(personas, heap[ref].id, ref)

NeverSaved == [id \in PersonaIds |-> {}]

\* Persona(...): a new object
Caller_construct_persona(persona) ==
    /\ Len(locals) < MaxObjects
    /\ locals' = Append(locals, persona)
    /\ last' = Returned("Persona", persona, {Len(locals) + 1})
    /\ UNCHANGED <<backend, mem_personas, mem_posts, personas_json, posts_json,
                   uuid_count, pc, req, calls, personas_before, posts_before, ctor>>

\* persona.name = name, on an object the caller constructed, passed to
\* save_persona or received from get_persona_by_id
Caller_setattr_name(ref, name) ==
    /\ ref \in DOMAIN locals
    /\ locals[ref].name # name
    /\ locals' = [locals EXCEPT ![ref].name = name]
    /\ last' = Returned("setattr", <<ref, name>>, {})
    /\ UNCHANGED <<backend, mem_personas, mem_posts, personas_json, posts_json,
                   uuid_count, pc, req, calls, personas_before, posts_before, ctor>>

\* what get_persona_by_id(persona_id) returns on each repository, as values
Objects_lookup(personas, heap, file, persona_id) ==
    <<InMemory_get_persona_by_id(Deref(personas, heap), persona_id),
      File_get_persona_by_id(file, persona_id)>>

Objects_record(persona_id) ==
    LET now == Objects_lookup(mem_personas', locals', personas_json', persona_id)
    IN  personas_before' = <<[personas_before[1] EXCEPT ![persona_id] = now[1]],
                             [personas_before[2] EXCEPT ![persona_id] = now[2]]>>

Objects_save_persona(ref) ==
    /\ ref \in DOMAIN locals
    /\ mem_personas' = InMemory_save_persona_object(mem_personas, locals, ref)
    /\ personas_json' = File_save_persona(personas_json, locals[ref])
    /\ last' = Returned("save_persona", ref, {})
    /\ UNCHANGED locals
    /\ Objects_record(locals[ref].id)
    /\ UNCHANGED <<backend, mem_posts, posts_json, uuid_count, pc, req, calls,
                   posts_before, ctor>>

Objects_delete_persona(persona_id) ==
    /\ mem_personas' = InMemory_delete_persona(mem_personas, persona_id)[1]
    /\ personas_json' = File_delete_persona(personas_json, persona_id)[1]
    /\ last' = Returned("delete_persona", persona_id,
                        {<<InMemory_delete_persona(mem_personas, persona_id)[2],
                           File_delete_persona(personas_json, persona_id)[2]>>})
    /\ UNCHANGED locals
    /\ Objects_record(persona_id)
    /\ UNCHANGED <<backend, mem_posts, posts_json, uuid_count, pc, req, calls,
                   posts_before, ctor>>

\* the in-memory repository hands out the stored object (line 19), the file
\* repository a new object built from the document (Persona(**data))
Objects_get_persona_by_id(persona_id) ==
    LET found == File_get_persona_by_id(personas_json, persona_id)
        stored == InMemory_get_persona_by_id(mem_personas, persona_id)
    IN  /\ Len(locals) < MaxObjects
        /\ locals' = IF found = {} THEN locals
                     ELSE Append(locals, CHOOSE p \in found : TRUE)
        /\ last' = Returned("get_persona_by_id", persona_id,
                            {<<stored, IF found = {} THEN {} ELSE {Len(locals) + 1}>>})
        /\ UNCHANGED <<backend, mem_personas, mem_posts, personas_json, posts_json,
                       uuid_count, pc, req, calls, personas_before, posts_before, ctor>>

InitObjects ==
    /\ backend = "both"
    /\ mem_personas = EmptyDict
    /\ mem_posts = EmptyDict
    /\ personas_json = MissingFile
    /\ posts_json = MissingFile
    /\ uuid_count = 0
    /\ pc = "idle"
    /\ req = NoRequest
    /\ locals = <<>>
    /\ calls = <<>>
    /\ last = Returned("none", None, {})
    /\ personas_before = <<NeverSaved, NeverSaved>>
    /\ posts_before = <<EmptyDict, MissingFile>>
    /\ ctor = NoCtor

NextObjects ==
    \/ \E persona \in Personas : Caller_construct_persona(persona)
    \/ \E ref \in 1..MaxObjects, name \in PersonaNames : Caller_setattr_name(ref, name)
    \/ \E ref \in 1..MaxObjects : Objects_save_persona(ref)
    \/ \E persona_id \in PersonaIds : Objects_delete_persona(persona_id)
    \/ \E persona_id \in PersonaIds : Objects_get_persona_by_id(persona_id)

SpecObjects == InitObjects /\ [][NextObjects]_vars

----------------------------------------------------------------------------

(* Properties of the interactors (checked under Spec) *)


AIServiceOps ==
    {"generate_market_analysis_and_prompt", "generate_post_content",
     "generate_image_prompt"}

\* the order of the collaborator calls of generate_post
PipelineOrder ==
    <<"get_persona_by_id", "generate_market_analysis_and_prompt",
      "generate_post_content", "generate_image_prompt", "save_post">>

StageError(op) ==
    IF op = "generate_market_analysis_and_prompt" THEN "stage 1 failed"
    ELSE IF op = "generate_post_content" THEN "stage 2 failed"
    ELSE "stage 3 failed"

\* C1: a generate_post whose persona_id is not in the persona repository ends
\* by raising the not-found error; when it does, its only collaborator call
\* is the lookup (no AIService operation, no save_post) and both post stores
\* are as they were when it began. The pipeline is past the lookup only for a
\* persona that is stored.
C1_UnknownPersonaFailsFirst ==
    /\ (/\ last.op = "generate_post"
        /\ last.outcome # "running"
        /\ get_persona_by_id(last.arg.persona_id) = {})
       => /\ last.outcome = "raised"
          /\ last.error = "not found"
          /\ calls = <<Call("get_persona_by_id", <<last.arg.persona_id>>, {})>>
          /\ <<mem_posts, posts_json>> = posts_before
    /\ pc \in {"stage1", "stage2", "stage3", "save"}
       => get_persona_by_id(req.persona_id) # {}

C1_Witness ==
    /\ last.op = "generate_post"
    /\ last.outcome = "raised"
    /\ last.error = "not found"
    /\ get_persona_by_id(last.arg.persona_id) = {}
    /\ get_all_personas # {}

C3_StageFailureAborts ==
    \A i \in DOMAIN calls :
        (calls[i].op \in AIServiceOps /\ calls[i].outcome = "raised")
        => /\ i = Len(calls)
           /\ pc = "idle"
           /\ last.op = "generate_post"
           /\ last.outcome = "raised"
           /\ last.error = StageError(calls[i].op)
           /\ <<mem_posts, posts_json>> = posts_before

C3_Witness ==
    /\ Len(calls) = 4
    /\ calls[4].outcome = "raised"
    /\ last.outcome = "raised"
    /\ posts_before[1] # EmptyDict

\* C4: the collaborator calls of generate_post are made in the order lookup,
\* stage 1, stage 2, stage 3, save_post, each at most once and each only
\* after the one before it returned; a generate_post that returns made all
\* five, stage 1 with the persona found and the request's topic_hint and
\* additional_context, stage 2 with stage 1's generation_prompt, stage 3 with
\* stage 2's content and stage 1's market_analysis, save_post with the post
\* returned.
C4_StagesInOrder ==
    last.op = "generate_post"
    => /\ Len(calls) <= 5
       /\ \A i \in DOMAIN calls :
            /\ calls[i].op = PipelineOrder[i]
            /\ i < Len(calls) => calls[i].outcome = "returned"
       /\ pc = "lookup" => Len(calls) = 0
       /\ pc = "stage1" => Len(calls) = 1
       /\ pc = "stage2" => Len(calls) = 2
       /\ pc = "stage3" => Len(calls) = 3
       /\ pc = "save" => Len(calls) = 4
       /\ last.outcome = "returned"
          => /\ Len(calls) = 5
             /\ calls[1].args = <<last.arg.persona_id>>
             /\ calls[1].ret # {}
             /\ calls[2].args = <<calls[1].ret, last.arg.topic_hint,
                                  last.arg.additional_context>>
             /\ calls[3].args = <<calls[2].ret[2], calls[1].ret>>
             /\ calls[4].args = <<calls[3].ret, calls[2].ret[1], calls[1].ret>>
             /\ last.ret = {calls[5].args[1]}

C4_Witness ==
    /\ last.op = "generate_post"
    /\ last.outcome = "returned"
    /\ last.arg.topic_hint # None
    /\ Len(calls) = 5

\* the file's entries whose key reads as persona_id
FileKeysOf(file, persona_id) ==
    {t \in DOMAIN file.doc : JsonLoadString(t) = persona_id}

\* get_persona_by_id on the persona stores as they were when the latest
\* operation began
persona_before(persona_id) ==
    IF backend = "memory" THEN InMemory_get_persona_by_id(personas_before[1], persona_id)
    ELSE File_get_persona_by_id(personas_before[2], persona_id)

all_personas_before ==
    IF backend = "memory" THEN InMemory_get_all_personas(personas_before[1])
    ELSE File_get_all_personas(personas_before[2])

\* C5: a create_persona for an id that is stored raises the duplicate-id
\* error, makes no save_persona call and leaves both persona stores as they
\* were, so the store still holds exactly one record for that id, the one
\* stored before.
C5_DuplicateCreateRejected ==
    (last.op = "create_persona" /\ persona_before(last.arg.id) # {})
    => /\ last.outcome = "raised"
       /\ last.error = "already exists"
       /\ \A i \in DOMAIN calls : calls[i].op # "save_persona"
       /\ <<mem_personas, personas_json>> = personas_before
       /\ Cardinality({P \in get_all_personas : P.id = last.arg.id}) = 1
       /\ backend = "file" => Cardinality(FileKeysOf(personas_json, last.arg.id)) = 1
       /\ get_persona_by_id(last.arg.id) = persona_before(last.arg.id)

C5_Witness ==
    /\ last.op = "create_persona"
    /\ last.outcome = "raised"
    /\ get_persona_by_id(last.arg.id) # {last.arg}

----------------------------------------------------------------------------
(* Properties of the repositories (checked under SpecRepo) *)

FileEntry(file, id) == file.doc[CHOOSE t \in DOMAIN file.doc : JsonLoadString(t) = id]

FileTexts(file) ==
    LET doc == file.doc
    IN  (DOMAIN doc)
        \cup UNION {
              {IF f \in {"content_themes", "personal_brand_keywords"}
                  THEN <<>> ELSE doc[t][f] : f \in DOMAIN doc[t]}
              \cup UNION {
                    {doc[t][f][i] : i \in DOMAIN doc[t][f]} :
                        f \in (DOMAIN doc[t])
                              \cap {"content_themes", "personal_brand_keywords"}}
              : t \in DOMAIN doc}

\* whether a JSON string text holds a \uXXXX escape
RECURSIVE HasUnicodeEscape(_)
HasUnicodeEscape(t) ==
    IF Len(t) < 2 THEN FALSE
    ELSE IF t[1] = 92 THEN t[2] = 117 \/ HasUnicodeEscape(SubSeq(t, 3, Len(t)))
    ELSE HasUnicodeEscape(Tail(t))

Characters(t) == {t[i] : i \in DOMAIN t}

\* C9: after any save, no text of personas.json or posts.json holds a \uXXXX
\* escape, and each non-ASCII character of the saved name (persona) or
\* content (post) stands in the file as itself.
C9_NonAsciiWrittenVerbatim ==
    /\ \A t \in FileTexts(personas_json) \cup FileTexts(posts_json) :
            ~HasUnicodeEscape(t)
    /\ last.op = "save_persona"
       => \A c \in {x \in Characters(last.arg.name) : x > 127} :
            c \in Characters(FileEntry(personas_json, last.arg.id).name)
    /\ last.op = "save_post"
       => \A c \in {x \in Characters(last.arg.content) : x > 127} :
            c \in Characters(FileEntry(posts_json, last.arg.id).content)

\* the posts a store holds, found id by id through get_post_by_id
StoredPosts(by_id) == UNION {by_id[id] : id \in DOMAIN by_id}

MemPostsById == [id \in QueryIds |-> InMemory_get_post_by_id(mem_posts, id)]

FilePostsById(now) == [id \in QueryIds |-> File_get_post_by_id(posts_json, id, now)]

\* what get_posts_by_persona(persona_id) is to return from a store: the
\* stored posts of that persona_id, as many as there are ids holding one
PostsOfPersona(by_id, persona_id, ret) ==
    /\ ret = {post \in StoredPosts(by_id) : post.persona_id = persona_id}
    /\ Cardinality(ret)
       = Cardinality({id \in DOMAIN by_id :
                        \E post \in by_id[id] : post.persona_id = persona_id})

\* C13: on both post repositories and after any sequence of saves,
\* get_posts_by_persona(pid) returns the stored posts whose persona_id is pid,
\* all of them, no other, one per stored id, and nothing when there is
\* none; right after save_post(x), x is among the posts of x.persona_id and
\* no post of id x.id is among those of another persona.
C13_PostsByPersona ==
    /\ last.op = "get_posts_by_persona"
       => /\ PostsOfPersona(MemPostsById, last.arg, last.ret[1])
          /\ \A now \in Times : PostsOfPersona(FilePostsById(now), last.arg, last.ret[2])
    /\ last.op = "save_post"
       => \A pid \in QueryIds, now \in Times :
            /\ (last.arg \in InMemory_get_posts_by_persona(mem_posts, pid))
               <=> pid = last.arg.persona_id
            /\ (last.arg \in File_get_posts_by_persona(posts_json, pid, now))
               <=> pid = last.arg.persona_id
            /\ pid # last.arg.persona_id
               => \A post \in InMemory_get_posts_by_persona(mem_posts, pid)
                             \cup File_get_posts_by_persona(posts_json, pid, now) :
                        post.id # last.arg.id

C13_Witness ==
    /\ last.op = "get_posts_by_persona"
    /\ Cardinality(last.ret[2]) = 1
    /\ Cardinality(File_get_all_posts(posts_json, <<7, 0>>)) = 2

\* save as an upsert, stated on one store: after[id] / before[id] are what
\* get_by_id(id) yields after / before the save of x, n_after / n_before the
\* number of records held
Upsert(x, before, after, n_before, n_after) ==
    /\ after[x.id] = {x}
    /\ \A id \in (DOMAIN after) \ {x.id} : after[id] = before[id]
    /\ n_after = IF before[x.id] = {} THEN n_before + 1 ELSE n_before

ReturningOps ==
    {"get_persona_by_id", "get_all_personas", "delete_persona",
     "get_post_by_id", "get_posts_by_persona", "get_all_posts"}

\* C20: when the same sequence of save / get_by_id / get_all / delete
\* (personas) and save / get_by_id / get_by_persona / get_all (posts) is
\* applied to an in-memory and to a file-backed repository, both empty at
\* first and with every write succeeding, every call returns the same on
\* both (lists compared as sets), and every call that could follow would.
C20_BackendsInterchangeable ==
    /\ last.outcome = "returned"
    /\ last.op \in ReturningOps => last.ret[1] = last.ret[2]
    /\ \A id \in QueryIds, now \in Times :
        /\ InMemory_get_persona_by_id(mem_personas, id)
           = File_get_persona_by_id(personas_json, id)
        /\ InMemory_delete_persona(mem_personas, id)[2]
           = File_delete_persona(personas_json, id)[2]
        /\ InMemory_get_post_by_id(mem_posts, id)
           = File_get_post_by_id(posts_json, id, now)
        /\ InMemory_get_posts_by_persona(mem_posts, id)
           = File_get_posts_by_persona(posts_json, id, now)
        /\ InMemory_get_all_personas(mem_personas) = File_get_all_personas(personas_json)
        /\ InMemory_get_all_posts(mem_posts) = File_get_all_posts(posts_json, now)

C20_Witness ==
    /\ last.op = "get_all_posts"
    /\ Cardinality(last.ret[2]) = 2
    /\ \E post \in last.ret[2] : post.persona_id = <<233>>
    /\ Cardinality(File_get_all_personas(personas_json)) = 1

----------------------------------------------------------------------------
(* Properties of the file-backed repositories under faults (checked under   *)
(* SpecFaults)                                                              *)

PersonaRepositoryOps ==
    {"save_persona", "get_persona_by_id", "get_all_personas", "delete_persona"}

PostRepositoryOps ==
    {"save_post", "get_post_by_id", "get_posts_by_persona", "get_all_posts"}

\* whether the latest method wrote its file without a failure
WriteSucceeded == Len(calls) = 2 /\ calls[2].outcome = "returned"

\* whether the write of the latest method failed
WriteFailed == Len(calls) = 2 /\ calls[2].outcome = "raised"

\* a method called on a file of one of the kinds behaves as on an empty
\* store: it raises nothing, get_by_id finds nothing, get_all and
\* get_posts_by_persona return nothing, delete returns False and leaves the
\* file alone, and a save whose write succeeds leaves exactly the saved record
ActsAsEmptyStore(kinds) ==
    /\ (last.op \in PersonaRepositoryOps /\ personas_before[2].kind \in kinds)
       => /\ last.outcome = "returned"
          /\ last.op \in {"get_persona_by_id", "get_all_personas"} => last.ret = {}
          /\ last.op = "delete_persona"
             => last.ret = FALSE /\ personas_json = personas_before[2]
          /\ (last.op = "save_persona" /\ WriteSucceeded)
             => File_get_all_personas(personas_json) = {last.arg}
    /\ (last.op \in PostRepositoryOps /\ posts_before[2].kind \in kinds)
       => /\ last.outcome = "returned"
          /\ last.op \in {"get_post_by_id", "get_posts_by_persona", "get_all_posts"}
             => last.ret = {}
          /\ (last.op = "save_post" /\ WriteSucceeded)
             => \A now \in Times : File_get_all_posts(posts_json, now) = {last.arg}

\* a missing file and a file json.load rejects are treated as an empty store
UnparsableFileActsAsEmptyStore == ActsAsEmptyStore({"missing", "garbage"})

\* C15: every method of the file-backed repositories, called when the file
\* is missing or malformed (text that is not JSON, bytes that are not text,
\* JSON that is not an object), raises nothing and behaves as on an empty
\* store.
C15_MalformedFileActsEmpty == ActsAsEmptyStore({"missing"} \cup MalformedKinds)

\* C16: when the write of a save or delete on a file-backed repository
\* fails, at open, during the dump or at close, the method still returns to
\* its caller as if it had succeeded (None from save, True from delete), no
\* exception leaves it, and it has tried the write once.
C16_WriteFailureSwallowed ==
    WriteFailed
    => /\ last.op \in {"save_persona", "delete_persona", "save_post"}
       /\ last.outcome = "returned"
       /\ last.error = ""
       /\ last.op = "delete_persona" => last.ret = TRUE
       /\ last.op \in {"save_persona", "save_post"} => last.ret = {}
       /\ Cardinality({i \in DOMAIN calls :
                          calls[i].op \in {"_save_personas", "_save_posts"}}) = 1

C16_Witness ==
    /\ WriteFailed
    /\ last.op = "delete_persona"
    /\ calls[2].args = <<"open">>
    /\ last.ret = TRUE
    /\ File_get_persona_by_id(personas_json, last.arg) # {}

----------------------------------------------------------------------------
(* Properties of two concurrent writers (checked under SpecWriters) *)

\* the position of a writer's step in the order of the steps
StepIndex(w, step) == CHOOSE i \in DOMAIN calls : calls[i] = Step(w, step)

\* the writer whose rewrite came last, and the other one
LastWriter == calls[Len(calls)].writer

OtherWriter == CHOOSE w \in Writers : w # LastWriter

\* whether the last writer loaded the document after the other's rewrite
LastWriterSawOther ==
    StepIndex(OtherWriter, "rewrite") < StepIndex(LastWriter, "load")

\* C17: two writers saving different ids to the same file-backed store both
\* return normally, whatever the interleaving of their load and rewrite
\* steps; the final document is the one the last writer wrote: it holds the
\* last writer's record, and it holds the other writer's record only if the
\* last writer loaded after the other had rewritten - otherwise that record
\* is lost, without an error to either writer. (The witness is such a run.)
C17_LastWriterWinsWholeFile ==
    (\A w \in Writers : pc[w] = "returned")
    => /\ \A w \in Writers : last[w].outcome = "returned" /\ last[w].error = ""
       /\ last[LastWriter].op = "save_persona"
          => /\ File_get_persona_by_id(personas_json, req[LastWriter].id)
                = {req[LastWriter]}
             /\ File_get_persona_by_id(personas_json, req[OtherWriter].id)
                = IF LastWriterSawOther THEN {req[OtherWriter]} ELSE {}
             /\ File_get_persona_by_id(personas_json, <<122>>)
                = File_get_persona_by_id(personas_before[2], <<122>>)
       /\ last[LastWriter].op = "save_post"
          => \A now \in Times :
                /\ File_get_post_by_id(posts_json, req[LastWriter].id, now)
                   = {req[LastWriter]}
                /\ File_get_post_by_id(posts_json, req[OtherWriter].id, now)
                   = IF LastWriterSawOther THEN {req[OtherWriter]} ELSE {}
                /\ File_get_post_by_id(posts_json, <<122>>, now)
                   = File_get_post_by_id(posts_before[2], <<122>>, now)

\* a lost update: both saves have returned without error and the document
\* holds writer 1's record (and the bystander's) but not writer 2's
C17_Witness ==
    /\ \A w \in Writers : pc[w] = "returned" /\ last[w].outcome = "returned"
    /\ last[1].op = "save_persona"
    /\ File_get_persona_by_id(personas_json, req[1].id) = {req[1]}
    /\ File_get_persona_by_id(personas_json, req[2].id) = {}
    /\ File_get_persona_by_id(personas_json, <<122>>) # {}

----------------------------------------------------------------------------
(* Properties of the live generation service (checked under SpecService) *)

MissingKeyError ==
    "OpenAI API key is required for post generation. Please set OPENAI_API_KEY environment variable."

\* what the code does without a credential: construction returns, no request
\* is ever sent, generate_post_content and generate_image_prompt raise the
\* missing-key error, generate_market_analysis_and_prompt an AttributeError
MissingKeyBehaviour ==
    /\ last.op = "__init__" => last.outcome = "returned"
    /\ (pc \in {"first", "later"} /\ ~locals.has_real_key)
       => /\ calls = <<>>
          /\ last.outcome = "raised"
          /\ last.error = IF last.op = "generate_market_analysis_and_prompt"
                          THEN "AttributeError" ELSE MissingKeyError

\* C18: OpenAIService(...) without a credential is constructed without error;
\* the first stage operation called on it, whichever of the three it is,
\* raises the missing-key error, and no request has been sent.
C18_MissingKeyRaisedOnFirstUse ==
    /\ last.op = "__init__" => last.outcome = "returned"
    /\ (pc = "first" /\ ~locals.has_real_key)
       => /\ last.outcome = "raised"
          /\ last.error = MissingKeyError
          /\ calls = <<>>

\* the models the tests expect to be sent no temperature
IsGpt5Family(model) == model \in {"gpt-5", "gpt-5-turbo"}

\* the temperature written into each stage's request
StageTemperature(stage) ==
    IF stage = "generate_market_analysis_and_prompt" THEN "0.8"
    ELSE IF stage = "generate_post_content" THEN "0.9"
    ELSE "0.7"

\* what the code does: every request carries its stage's temperature
TemperatureAlwaysSent ==
    \A i \in DOMAIN calls :
        /\ "temperature" \in DOMAIN calls[i]
        /\ calls[i].temperature = StageTemperature(calls[i].stage)

\* C19: a request sent for a GPT-5-family model has no temperature
\* parameter; a request sent for any other model carries 0.8 in stage 1, 0.9
\* in stage 2 and 0.7 in stage 3.
C19_TemperatureFollowsModel ==
    \A i \in DOMAIN calls :
        IF IsGpt5Family(calls[i].model)
        THEN "temperature" \notin DOMAIN calls[i]
        ELSE /\ "temperature" \in DOMAIN calls[i]
             /\ calls[i].temperature = StageTemperature(calls[i].stage)

----------------------------------------------------------------------------
(* Properties of the entities (checked under SpecEntity) *)

RequiredFields == {"id", "name", "niche", "target_audience", "localization"}

\* the validation error that names a required field
ErrorNaming(f) ==
    IF f = "id" THEN "Persona ID cannot be empty"
    ELSE IF f = "name" THEN "Persona name cannot be empty"
    ELSE IF f = "niche" THEN "Persona niche cannot be empty"
    ELSE IF f = "target_audience" THEN "Target audience cannot be empty"
    ELSE "Localization cannot be empty"

EmptyFields(args) == {f \in RequiredFields : args[f] = <<>> \/ args[f] = None}

PostRequiredFields == <<"id", "persona_id", "content">>

PostErrorNaming(f) ==
    IF f = "id" THEN "Post ID cannot be empty"
    ELSE IF f = "persona_id" THEN "Persona ID cannot be empty"
    ELSE "Post content cannot be empty"

\* the positions in PostRequiredFields of the fields that are "" or None
EmptyPostFields(args) ==
    {i \in DOMAIN PostRequiredFields :
        args[PostRequiredFields[i]] = <<>> \/ args[PostRequiredFields[i]] = None}

\* C11: LinkedInPost(...) raises exactly when id, persona_id or content is
\* empty ("" or None), the error being the one of the first empty field in
\* the order id, persona_id, content, and yields no post then; otherwise it
\* yields a post holding those three arguments. PostGenerationRequest(...)
\* raises exactly when persona_id is empty and otherwise yields the request.
C11_PostValidation ==
    /\ ctor.kind = "LinkedInPost"
       => /\ ctor.result.ok <=> EmptyPostFields(ctor.args) = {}
          /\ \A i \in EmptyPostFields(ctor.args) :
                (\A j \in EmptyPostFields(ctor.args) : i <= j)
                => /\ ctor.result.error = PostErrorNaming(PostRequiredFields[i])
                   /\ ctor.result.value = {}
          /\ ctor.result.ok
             => \E post \in ctor.result.value :
                    /\ ctor.result.value = {post}
                    /\ post.id = ctor.args.id
                    /\ post.persona_id = ctor.args.persona_id
                    /\ post.content = ctor.args.content
    /\ ctor.kind = "PostGenerationRequest"
       => /\ ctor.result.ok <=> ~(ctor.args.persona_id \in {<<>>, None})
          /\ ctor.result.ok => ctor.result.value = {ctor.args}
          /\ ~ctor.result.ok
             => /\ ctor.result.value = {}
                /\ ctor.result.error = "Persona ID is required for post generation"

C11_Witness ==
    /\ ctor.kind = "LinkedInPost"
    /\ EmptyPostFields(ctor.args) = {2, 3}
    /\ ctor.result.error = "Persona ID cannot be empty"

\* C12: a LinkedInPost that was constructed has a created_at that is not
\* None: the created_at passed when one was passed, and the reading of the
\* clock at construction when it was left out.
C12_CreatedAtNeverNull ==
    (ctor.kind = "LinkedInPost" /\ ctor.result.ok)
    => \A post \in ctor.result.value :
        /\ post.created_at # None
        /\ post.created_at = IF ctor.args.created_at = None
                             THEN ctor.now ELSE ctor.args.created_at

C12_Witness ==
    /\ ctor.kind = "LinkedInPost"
    /\ ctor.result.ok
    /\ ctor.args.created_at # None
    /\ ctor.args.created_at # ctor.now

\* what C12 means for generate_post, stated on the interactors: every post
\* the wired post repository holds carries a created_at, a reading of the clock
PersistedPostsHaveCreatedAt ==
    \A now \in Times :
        \A post \in get_all_posts(now) :
            post.created_at # None /\ post.created_at \in Times

----------------------------------------------------------------------------
(* Properties of stored objects (checked under SpecObjects) *)

\* the records of the file-backed repository change only through save_persona
\* and delete_persona of their id
FileRecordChangesOnlyThroughRepository ==
    \A id \in PersonaIds :
        File_get_persona_by_id(personas_json, id) = personas_before[2][id]

\* C21: between two saves or deletes of an id, get_persona_by_id(id) returns
\* the same value on every repository, whatever the caller assigns to the
\* Persona objects it passed to save_persona or received from a lookup.
C21_StoredRecordChangesOnlyThroughRepository ==
    \A id \in PersonaIds :
        Objects_lookup(mem_personas, locals, personas_json, id)
            = <<personas_before[1][id], personas_before[2][id]>>

----------------------------------------------------------------------------
(* Further properties of the interactors (checked under Spec; C26 under     *)
(* SpecReads)                                                               *)

\* get_all_posts on the post stores as they were when the latest operation
\* began
all_posts_before(now) ==
    IF backend = "memory" THEN InMemory_get_all_posts(posts_before[1])
    ELSE File_get_all_posts(posts_before[2], now)

post_ids(stores) ==
    IF backend = "memory" THEN DOMAIN stores[1] ELSE DOMAIN File_load_posts(stores[2])

----------------------------------------------------------------------------
(* Properties of the stage-1 parse (checked under SpecParse) *)

\* what the claim states of the answer content and the pair ret made of it
Stage1ParsedAsStated(content, ret) ==
    LET i == Find(content, GenerationPromptToken, 1)
        n == Len(content)
    IN  IF i # 0
        THEN /\ ret[1] = Strip(Replace(SubSeq(content, 1, i - 1), MarketAnalysisToken, <<>>))
             /\ ret[2] = Strip(SubSeq(content, i + Len(GenerationPromptToken), n))
        ELSE /\ ret[1] = SubSeq(content, 1, n \div 2)
             /\ ret[2] = SubSeq(content, n \div 2 + 1, n)
             /\ ret[1] \o ret[2] = content

\* the statement holds of every answer that has the separator at most once
SingleSeparatorParsedAsStated ==
    (/\ last.op = "generate_market_analysis_and_prompt"
     /\ last.outcome = "returned"
     /\ Len(Split(last.arg, GenerationPromptToken)) <= 2)
    => \A ret \in last.ret : Stage1ParsedAsStated(last.arg, ret)

\* C24: with the separator "GENERATION PROMPT:" in the answer,
\* market_analysis is the text before its first occurrence with every
\* "MARKET ANALYSIS:" removed, trimmed, and generation_prompt is the text
\* after that occurrence, trimmed; without the separator they are the first
\* floor(n/2) characters and the rest, which put together give the answer.
C24_Stage1ResponseParsing ==
    (last.op = "generate_market_analysis_and_prompt" /\ last.outcome = "returned")
    => \A ret \in last.ret : Stage1ParsedAsStated(last.arg, ret)

----------------------------------------------------------------------------
(* Properties of the mock generation service (checked under SpecMock) *)

\* the template the first matching keyword selects, "AI" being looked for in
\* the prompt when ai_matches
TemplateByKeyword(generation_prompt, ai_matches) ==
    IF Contains(Lower(generation_prompt), KeywordStartup) THEN "startup lessons"
    ELSE IF Contains(Lower(generation_prompt), KeywordMarketing) THEN "marketing strategy"
    ELSE IF \/ ai_matches /\ Contains(generation_prompt, KeywordAI)
            \/ Contains(Lower(generation_prompt), KeywordArtificialIntelligence)
         THEN "AI innovation"
    ELSE "generic"

\* what the service does: "AI" never selects a template
MockSelectsTemplateButNeverByAI ==
    last.op = "generate_post_content"
    => \A post \in last.ret : post.template = TemplateByKeyword(last.arg[1], FALSE)

\* C25: the post returned is determined by the prompt and the persona, and
\* its template is the one of the first keyword found in the prompt:
\* "startup", else "marketing", else "AI" or "artificial intelligence", else
\* the generic post made from the persona.
C25_MockSelectsTemplateByKeyword ==
    last.op = "generate_post_content"
    => /\ Cardinality(last.ret) = 1
       /\ \A post \in last.ret : post.template = TemplateByKeyword(last.arg[1], TRUE)

\* the read operations of the two interactors, with the repository method
\* each one calls
ReadOps ==
    [get_persona |-> "get_persona_by_id", list_personas |-> "get_all_personas",
     get_post |-> "get_post_by_id", get_posts_by_persona |-> "get_posts_by_persona",
     get_all_posts |-> "get_all_posts"]

\* what the repository method op returns for arg on the stores as they are
RepositoryReturns(op, arg, now) ==
    IF op = "get_persona_by_id" THEN get_persona_by_id(arg)
    ELSE IF op = "get_all_personas" THEN get_all_personas
    ELSE IF op = "get_post_by_id" THEN get_post_by_id(arg, now)
    ELSE IF op = "get_posts_by_persona" THEN get_posts_by_persona(arg, now)
    ELSE get_all_posts(now)

\* C26: get_post, get_posts_by_persona, get_all_posts, get_persona and
\* list_personas each make one call, of their repository method, and return
\* what it returned, which is what that repository holds; the persona store
\* and the post store (map or file) are as before the call, and no AIService
\* operation is called.
C26_ReadsChangeNothing ==
    last.op \in DOMAIN ReadOps
    => /\ <<mem_personas, personas_json>> = personas_before
       /\ <<mem_posts, posts_json>> = posts_before
       /\ Len(calls) = 1
       /\ calls[1].op = ReadOps[last.op]
       /\ calls[1].op \notin AIServiceOps
       /\ calls[1].outcome = "returned"
       /\ last.outcome = "returned"
       /\ last.ret = calls[1].ret
       /\ \A now \in Times : last.ret = RepositoryReturns(calls[1].op, last.arg, now)

\* get_posts_by_persona has returned the posts of a persona that is no
\* longer stored
C26_Witness ==
    /\ last.op = "get_posts_by_persona"
    /\ last.ret # {}
    /\ get_persona_by_id(last.arg) = {}
    /\ uuid_count = 2

\* a lookup result for id: absent, or one record whose id field is id
AbsentOrOwnId(found, id) ==
    /\ Cardinality(found) <= 1
    /\ \A record \in found : record.id = id

\* what get_all returned: one record per key, no two with the same id
OnePerKey(all, keys) ==
    /\ Cardinality(all) = Cardinality(keys)
    /\ {record.id : record \in all} = keys
    /\ \A a, b \in all : a.id = b.id => a = b

\* C27: in each of the four repositories every record is held under the key
\* that is its own id: get_by_id(i) is absent or a record whose id is i, and
\* get_all returns one record for each key, no two of them with the same id.
C27_OneRecordPerId ==
    \A now \in Times :
        /\ \A i \in QueryIds \cup DOMAIN mem_personas \cup DOMAIN mem_posts
                    \cup DOMAIN File_load_personas(personas_json)
                    \cup DOMAIN File_load_posts(posts_json) :
                /\ AbsentOrOwnId(InMemory_get_persona_by_id(mem_personas, i), i)
                /\ AbsentOrOwnId(File_get_persona_by_id(personas_json, i), i)
                /\ AbsentOrOwnId(InMemory_get_post_by_id(mem_posts, i), i)
                /\ AbsentOrOwnId(File_get_post_by_id(posts_json, i, now), i)
        /\ OnePerKey(InMemory_get_all_personas(mem_personas), DOMAIN mem_personas)
        /\ OnePerKey(File_get_all_personas(personas_json),
                     DOMAIN File_load_personas(personas_json))
        /\ OnePerKey(InMemory_get_all_posts(mem_posts), DOMAIN mem_posts)
        /\ OnePerKey(File_get_all_posts(posts_json, now),
                     DOMAIN File_load_posts(posts_json))
        /\ Cardinality(DOMAIN personas_json.doc)
           = Cardinality(DOMAIN File_load_personas(personas_json))
        /\ Cardinality(DOMAIN posts_json.doc)
           = Cardinality(DOMAIN File_load_posts(posts_json))

\* an update has overwritten one of two stored personas, and two posts are
\* stored
C27_Witness ==
    /\ last.op = "update_persona"
    /\ last.outcome = "returned"
    /\ Cardinality(get_all_personas) = 2
    /\ Cardinality(post_ids(<<mem_posts, posts_json>>)) = 2
    /\ \E record \in persona_before(last.arg.id) : record # last.arg

\* stage 2 of the running or the latest generate_post returned the empty text
Stage2ReturnedEmpty ==
    /\ Len(calls) >= 3
    /\ calls[3].op = "generate_post_content"
    /\ calls[3].outcome = "returned"
    /\ calls[3].ret = <<>>

\* C28: when stage 2 returns the empty text, no post is saved and
\* generate_post ends by raising, not before stage 3 has been called with
\* that text; the error is the content error of LinkedInPost when stage 3
\* returned (stage 3's own error when it raised). The content error is raised
\* only so: after the lookup and the three stages were called in order and
\* returned, with no save_post call.
C28_EmptyContentFailsAfterStage3 ==
    /\ Stage2ReturnedEmpty
       => /\ <<mem_posts, posts_json>> = posts_before
          /\ \A i \in DOMAIN calls : calls[i].op # "save_post"
          /\ pc \in {"stage3", "save", "idle"}
          /\ pc # "stage3"
             => /\ Len(calls) = 4
                /\ calls[4].op = "generate_image_prompt"
                /\ calls[4].args[1] = <<>>
          /\ pc = "idle"
             => /\ last.op = "generate_post"
                /\ last.outcome = "raised"
                /\ last.error = IF calls[4].outcome = "returned"
                                THEN "Post content cannot be empty"
                                ELSE StageError("generate_image_prompt")
    /\ (last.op = "generate_post" /\ last.error = "Post content cannot be empty")
       => /\ Stage2ReturnedEmpty
          /\ Len(calls) = 4
          /\ \A i \in 1..4 : calls[i].op = PipelineOrder[i] /\ calls[i].outcome = "returned"
          /\ AIServiceOps = {calls[i].op : i \in 2..4}
          /\ <<mem_posts, posts_json>> = posts_before

\* the content error has been raised with a post already in the store
C28_Witness ==
    /\ last.op = "generate_post"
    /\ last.error = "Post content cannot be empty"
    /\ Len(calls) = 4
    /\ post_ids(posts_before) # {}
    /\ post_ids(<<mem_posts, posts_json>>) = post_ids(posts_before)

----------------------------------------------------------------------------
(* Properties of two concurrent create_persona calls (checked under         *)
(* SpecCreators)                                                            *)

\* the position of a caller's step in the order of the steps, 0 when the
\* step has not been taken
CreatorStep(w, step) ==
    IF \E i \in DOMAIN calls : calls[i] = Step(w, step)
    THEN CHOOSE i \in DOMAIN calls : calls[i] = Step(w, step)
    ELSE 0

Other(w) == CHOOSE v \in Writers : v # w

\* the id both callers create, and whether the store held it before the calls
CreatedId == req[1].id

StoredBefore == File_get_persona_by_id(personas_before[2], CreatedId) # {}

\* the other caller had saved when w made its lookup
SavedBeforeCheckOf(w) ==
    /\ CreatorStep(Other(w), "save") # 0
    /\ CreatorStep(Other(w), "save") < CreatorStep(w, "check")

BothEnded == \A w \in Writers : pc[w] \in {"returned", "raised"}

----------------------------------------------------------------------------
(* Further properties of the file-backed repositories under faults (checked *)
(* under SpecFaults)                                                        *)

\* the id the latest save or delete was about
WrittenId == IF last.op = "delete_persona" THEN last.arg ELSE last.arg.id

\* every record the file held before the latest method, other than the one
\* the method was about, is returned as before by get_by_id and get_all
OtherRecordsKept ==
    /\ last.op \in {"save_persona", "delete_persona"}
       => \A p \in File_get_all_personas(personas_before[2]) :
            p.id # WrittenId
            => /\ File_get_persona_by_id(personas_json, p.id) = {p}
               /\ p \in File_get_all_personas(personas_json)
    /\ last.op = "save_post"
       => \A now \in Times :
            \A q \in File_get_all_posts(posts_before[2], now) :
                q.id # WrittenId
                => /\ File_get_post_by_id(posts_json, q.id, now) = {q}
                   /\ q \in File_get_all_posts(posts_json, now)

\* a write that fails at open(path, 'w') leaves the file as it was
FailedOpenLeavesFileAlone ==
    (WriteFailed /\ calls[2].args = <<"open">>)
    => /\ <<personas_json, posts_json>> = <<personas_before[2], posts_before[2]>>
       /\ OtherRecordsKept

\* C30: after a save or delete on a file-backed repository whose write
\* failed and was swallowed, every record stored before the operation (the
\* one being saved or deleted aside) is still returned unchanged by get_by_id
\* and get_all.
C30_FailedWriteLosesOnlyTheUpdate == WriteFailed => OtherRecordsKept

====
